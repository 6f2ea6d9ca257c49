# Server Manager: a TLA+ model

*Server Manager* is an iOS app (Objective-C) for administering Linux and MySQL
servers: it keeps a list of servers, opens SSH, SFTP and MySQL connections to
them, and offers screens for services, files, packages, tables, scripts and
voice commands. This directory holds a model of it: TLA+ modules translated
from the source, TLC configurations that check them on small instances, and
TLAPS proofs about all of them.

`PROJECT.json` maps every definition to the lines it models and lists the runs,
the mutants, the hazards and the findings.

    tlc -config ServiceManager.cfg MCServiceManager      # any run of the table below
    tlapm ServiceManager_proofs.tla                      # any *_proofs module

## 1. The system

There is no server side and no layer of services. Each screen is a view
controller with its own state; screens share a Core Data context (in
`AppDelegate`), an `NMSSHSession` handed from screen to screen, and a `MYSQL`
connection handed the same way. Almost everything runs on the main thread; two
screens (services, voice) and the package screens load in a background GCD
block that touches the state of the main thread without locks.

| Component | State | Operations | Talks to |
|---|---|---|---|
| Service manager (`ManageProcessesLinux...`) | services, filtered services, status of each, overlay, alert tag | load and prune, search, tap, stop, restart, start | SSH session; main queue and background block share the array |
| Voice control (`VoiceListener...`) | servers read once, transaction state, recognizer, selection, reviewed command | listen, callbacks, use, check status, execute, review | SpeechKit callbacks, Core Data, SSH |
| Server store (`ServerDAO`, `OperatingSystemDAO`, forms, lists) | Core Data context and store, lists shown, pending changes | seed, add, edit, delete, refresh, relaunch | shared context: any save writes everything pending |
| File manager (`SFTP*`) | path text, directory listing, open file, navigation stack | open, enter, leave, delete, edit, save, close | SFTP channel; other users of the server |
| Column form (`NewMySQLColumn...`) | picker, switches, fields, the column edited | pick, toggle, submit, cancel | designer, through a delegate |
| Table designer (`NewMySQLTable...`, `MySQLTable`, `TablesList...`) | columns and keys, statement, list of tables | add, edit, delete columns, create, review | MySQL connection, SQL editor |
| MySQL schemas, tables, results (`ManageServerMySQL...`, `Schemas...`, `Table...`) | the list each screen read, its copy of the `MYSQL` structure; on the server: tables, selected database | list, create, drop, query, refresh | one MySQL connection for all screens; other clients of the server |
| Linux session, console, usage (`ManageServerLinux...`, `LinuxConsole...`) | session, `tempPassword`, command history | connect, prompt, reboot, hand over to a tool, execute | SSH session |
| Packages (`Yum*`, `AptGet*`) | packages, filter, selected row, alert tag | list, parse, search, install, update, remove, refresh | SSH session; main queue and background block share the array |
| Scripts (`Script*`) | scripts in the shared context, screens on the stack | create, edit, delete, run | Core Data, the menu's SSH session |
| Speech word lists, templates, vendored code | none that other parts use | | |

What is hard here:

* **two threads, one array.** The service loader appends to, indexes and prunes
  an array that the table draws from and an alert handler looks up by row;
* **state across a dialogue.** An alert remembers a row number, a form remembers
  a column object, a list remembers what it fetched; the thing they name may
  move or go before the answer comes;
* **one context for everything.** A save that fails leaves its change pending,
  and the next successful save of anything writes it. Two screens seed the
  operating systems from two different lists, one save per row, and the app may
  end between any two of them;
* **callbacks.** A recognizer calls back several times and must be held until
  its last call; the button that starts it is dead in between;
* **one connection for everything.** Every MySQL screen has a copy of the same C
  structure while the server keeps one selected database; every Linux screen has
  the same session, which one screen may authorize and another one test;
* **a prompt that waits for itself.** The menu of a Linux server loops on the
  main thread until an alert is answered that only the main thread can answer;
* **paths as text.** The working directory is a string split and rebuilt at its
  slashes, while others change the files it names;
* **forms with history.** What a column form stores depends on every type that
  was tried before in the same form.

`hazards` in `PROJECT.json` lists these at their lines, with the property that
covers each one or the reason why none does.

## 2. Modules

| Module | Models | Lines of code |
|---|---|---|
| `ServiceManager` | the service screen: loader, overlay, table, alert handler | `ManageProcessesLinuxViewController.m` |
| `VoiceControl` | the voice screen: setup block, recognizer callbacks, interpretation of an utterance | `VoiceListenerViewController.m` |
| `ServerStore` | context and store, seeding, forms, lists, deletion, relaunch | `OperatingSystemDAO.m`, `ServerDAO.m`, `NewServer...`, `ServerOverview...`, `ServerList...`, `Options...`, `AppDelegate.m` |
| `WorkingDirectory` | abstract: what `SFTPHelper.h` promises | `SFTPHelper.h` |
| `Sublists` | what a loop keeps of an array: the elements at some of its indexes, in their order | `SFTPHelper.m`, `MySQLTable.m`, `Yum*.m`, `AptGet*.m` |
| `SFTPBrowser` | the path text, browser, editor, navigation stack; implements `WorkingDirectory` | `SFTP*.m` |
| `ColumnForm` | the form for one column, with its picker and switches | `NewMySQLColumnViewController.m`, `MySQLTableColumn.m` |
| `TableDesigner` | list of tables, designer, generated statement, SQL editor | `NewMySQLTable...`, `MySQLTable.m`, `TablesList...`, `EditSQL...` |
| `PackageManager` | the four package screens and the choice between them: listing, parser, table, alert handler, refresh | `Yum*.m`, `AptGet*.m`, `SelectPackageManager...` |
| `MySQLBrowser` | the MySQL screens on their navigation stack, over one connection and one server | `ManageServerMySQL...`, `Schemas...`, `SchemaOptions...`, `TablesList...`, `TableOptions...`, `EditSQL...`, `MySQLTable.m`, `MySQLSchema.m` |
| `LinuxSession` | SSH session, password, prompt, console, usage screen | `ManageServerLinux...`, `LinuxConsole...`, `ViewSystemUsage...` |
| `ScriptStore` | abstract: the operations on scripts in the shared context | `ScriptDAO.m`, `ScriptCreateEdit...`, `ScriptOptions...` |
| `LinuxServer` | composes the two: which screen of the stack makes which step | `Script*.m`, and the above |
| `MC*` | the instances TLC checks | |
| `ServerStore_proofs`, `ServiceManager_proofs`, `LinuxServer_proofs`, `MySQLBrowser_proofs`, `ColumnForm_proofs`, `TableDesigner_proofs`, `SFTPBrowser_proofs` | theorems and proofs about the module named | |
| `CommandScreens_proofs` | theorems and proofs about `VoiceControl` and `PackageManager`, which make commands out of text that is searched; `VoiceControl` names its specification `VoiceSpec`, its type invariant `VoiceTypeOK` and so on, so that one module can extend both | |

A component's module is one state machine: its variables are the fields of the
controller (with the source's names), each handler or callback is an action, and
a background block is cut into one action per array access or remote call, since
the main thread may run between any two. A handler of the main thread is one
action, except where it waits for a remote command while the other thread runs
(`Choose`, `CommandSucceeds`/`CommandFails`, `QuerySucceeds`/`QueryFails`).
Operators whose comment begins with "Mutant:" are plausible slips of the definition
that follows; each breaks a property, and no specification uses them.

How the state corresponds, where the names do not say it:

* **ServiceManager.** `loader` is the position in the background block, `i` the
  index of its two loops, `rows` the row count the table view cached at its last
  reload, `sel` the alert: its tag, its title, the button, and the objects the
  handler holds. A status is tagged with the service that gave it. An
  out-of-range index ends the app (`main = "crashed"`). The pruning loop removes
  row `i` and then advances, so it skips the neighbour (lines 100-105); the model
  does the same. Replacing a row of the filtered array (line 305) may succeed or
  raise: the type promises an immutable array.
* **VoiceControl.** An utterance is the outcome of the tests the code makes on its
  text: whether it holds "use" or "check", and for each of the three ways in
  which the branches compare names (trimmed, joined, as it is) the set of servers
  named. `sent` is the last command: by which path, to which servers. A spoken
  command is executed on every server named until a MySQL server stops the loop.
* **ServerStore.** `ctx...` is the shared context, `disk...` the store; a save
  copies one to the other or fails and copies nothing. `bottom` and `pushed` are
  the lists of servers the two list screens hold, which may be stale. `told` is
  what the app last reported about a server, `asked` the deletions its user
  confirmed. `shown` is the name the picker displayed when a server was saved: a
  history field, next to the id the code stores. The edit form turns the
  picker to row `operatingSystemID`, which counts from 1 while rows count from 0
  (`NewServerViewController.m:108`); `EditRows` keeps that, and past
  the last row lets the picker stay at its first or take its last one. A second deletion of a row whose object is gone either raises
  or goes on, as Core Data pleases (`DeleteRaises`).
* **SFTPBrowser.** A path text is the sequence of its pieces between slashes, so
  that splitting, rebuilding and cleaning are done on the text, not on the path.
  Replacing double slashes scans from the left, so of a run of slashes every second
  one goes (`Dropped`), and what is left is a `Sublist` of the pieces.
  An account's shell may print nothing for `pwd`. `link` is what is left of the
  connection.
* **ColumnForm.** `fields` is the type whose branch last set the fields; the switch
  settings of each branch are `SwitchesOf`, `HasLength`, `HasDefault`.
* **TableDesigner.** A statement is the sequence of its items and commas.
* **PackageManager.** A listing is a sequence of lines. yum wraps an entry whose
  name fills a line and prints a banner; each screen cuts and splits differently
  (`Stripped`, `Skipped`, `RefreshedRows`). The available-with-yum screen keeps only
  lines with ".x86" or ".noarch" (`YumInstallNewViewController.m:59`), so the packages of
  `OtherArch` have no row there. The yum screens request a terminal, in which what sudo
  says is part of the output, and the request stays with the channel of the session
  (`requestPty`): an apt screen opened later gets the prompt in front of its first row
  (`Prompted`), or a refusal, which the available-with-apt screen cannot split
  (`ParseRaises`, `AptGetInstallNewViewController.m:51`). `Response(present)` is what a server prints that
  has those packages: a refresh reads it after the command took effect. `rows` and `selected` are the table
  view's, `sel` is the alert with its tag and the name it showed. One of the four
  screens implements `didDeselectRowAtIndexPath:` in place of `didSelect...`, so
  it asks about the row tapped before (`TapDeselecting`), in a later pass of the
  run loop (`ShowDeferred`).
* **MySQLBrowser.** A frame of `stack` is a screen with the list it read. `stale`
  marks a copy of the `MYSQL` structure whose database name was freed through
  another copy (`Staled` says which: the copies of a tool's screen and of the list it was
  opened from, when the tool drops a table or the designer executes its statement, both
  of which select first); its next select may end the app or pass unnoticed. An options
  screen keeps its tool, whose own copy is good after its first select (`flag`). Once one
  copy has closed a lost connection (`link = "closed"`) the others may crash.
  `dropped` is what the last report of a drop named.
* **LinuxSession.** A password is the stored one, a typed one or nil. `handed` is
  the `tempPassword` a tool was given, `executed` the last command: who sent it,
  with which password, over an authorized session or not. `main = "loop"` is the
  main thread inside the prompting loop, where no alert can be answered.
* **ScriptStore, LinuxServer.** `context` is what the shared context sees, `stored`
  the store. `promised` is the text of a creation that was reported and not touched
  since, `asked` the scripts chosen for deletion. A form holds its script weakly, so its
  Save may find nil once any screen has saved the object: it then stores nothing and
  reports success (`CreateNothing`); `unheld` are the scripts whose last report was of
  that kind. The list shown after a
  deletion is presented modally and has no way out but ending the app.

External, modelled from how the source uses them: UIKit's navigation and picker,
Core Data's save, SpeechKit's order of callbacks, the SFTP server's file system,
MySQL's parser as far as commas go. A command on an SSH channel is one step.

## 3. Runs

| Run | Shows | Instance |
|---|---|---|
| `services` | statuses stay with their services; commands reach the titled service once the list has settled; rows agree with the array after the load; the load ends | 3 services, the fewest for which pruning skips a neighbour and rows shift under an alert |
| `voice` | spoken commands and checks never reach a MySQL server; a live recognizer is held; a selection is never lost; listening always ends | MySQL server between two others: a loop meets it first, midway or never; every utterance |
| `store` | ids resolve to the chosen system in context and store; the picker is never short; reports are durable; only confirmed deletions happen | 2 servers (one pending while the other saves); 3 systems, two seed lists that disagree on two ids, as the real ones do on the first four of nine |
| `sftp` | the path text implements a working directory; stepping out stays in bounds when `pwd` prints; a file is saved where it was opened | two levels, two names, logins at the root and below it, so that one name exists in both levels; every file tree over 4 paths |
| `column_form` | modifiers always match flags or were dropped by a cancelled edit; what is stored suits the type; the picker agrees with the fields; keys are only ever cleared | one type per kind of branch, and the two with incomplete branches; five switches |
| `designer` | a column object is listed once; the commas of a table with keys are right | 3 columns with every choice of keys: none, one and several of each kind |
| `packages` | a command names the package its alert named; the table stays inside its array; a loaded listing stays complete; the load ends | three packages, one of them wrapped and one of another architecture, so that every screen still has the two rows that a moving selection and a filter that shifts rows need; `MaxRemovals` = 1: one refresh, which appends; a second one appends in the same way, and the theorems hold for every bound |
| `mysql` | a reported drop removed the table of the list it was tapped in; the list shown next is without it | 2 schemas and 2 tables of the same names in each; `MaxDepth` = 7: menu, schemas, tables, options, the list after a drop, its options and the list after the next |
| `linux` | sudo gets the stored password until another was asked for; scripts and commands use an authorized session; scripts reported are in the store, as typed if the form held them; only chosen deletions happen | 2 scripts, 2 texts (an edit differs from a creation, one script is pending while another is saved); `MaxDepth` = 6: menu, scripting, list, options, form, list; `MaxHistory` = 2, one command and its response |

Lengths are bounded by the instance (services, servers, columns, paths) or by a
named bound (`MaxRemovals`, `MaxDepth`, `MaxHistory`), which is a guard of the
action that would exceed it. `services`, `sftp`, `packages` and `mysql` do not check
for deadlock: the app ends there when an index is out of range or an object is
used after it was freed, and one MySQL screen leaves the user without a way on.

*Fairness.* `services` assumes weak fairness of the loader, of the overlay's fade
and of the handler: GCD runs a block to its end, the fade is a timer, and a remote
command returns (with an error when the connection is lost). The user is never
assumed to act. `packages` assumes the same of its loader, overlay and handler.
`voice` assumes it of the setup block and of the recognizer's
callbacks, which SpeechKit ends by end-of-speech detection or by its own timeout.
`linux_prompt` assumes that the loop runs on and that the user answers every alert
that can be answered, which makes its violation the code's own.

Three further runs show where the code departs from what its comments or messages
say; each has an entry in `findings`.

| Run | What the code says | What happens |
|---|---|---|
| `services_restart` | restart refreshes the service it restarted | on a filtered list it restarts a service of the full list and refreshes another one |
| `sftp_delete` | "Deleted ... successfully" | with login directory `/a`, deleting the row `b` of `/a/a` deletes `/a/b`: the helper made for the deletion asks for `pwd` anew. The property speaks of rows below the login directory; for a row of the login directory itself the helper goes wrong only when that second `pwd` fails and it falls back to `/` (`SFTPHelper.m:24`) |
| `linux_prompt` | "just continually prompt them until we get a password" | the loop keeps the main thread from ever taking an answer |

Other departures are behaviours of the models that no run singles out:

* adding a server ends in an exception after the save, since the tab has no
  navigation controller (`NewServerViewController.m:259`);
* the second close of the file manager returns to the closed file manager, not, as the
  comment above it says, to the server overview (`SFTPTableViewController.m:98`): the
  first close has left the overview alone on the stack;
* a form that creates a script may report "Script updated!" and store nothing of what
  was typed, when another tab has saved its blank script before and the weak reference
  to it is nil (`ScriptCreateEditViewController.m:68`);
* the statement of a table without keys ends in a comma (`MySQLTable.m:47`), and the
  list of tables is not reloaded after a creation (`TablesListViewController.m:86`);
* a password typed into the alert of the Linux menu is kept and never used to
  authenticate (`ManageServerLinuxViewController.m:215`); the alert about a failed
  connection (line 60) has a button that reads a text field it does not have;
* an edited or deleted script is reported whatever its save did
  (`ScriptCreateEditViewController.m:92`, `ScriptOptionsViewController.m:106`), and
  every answer to the question about an empty list inserts a blank script
  (`ScriptListViewController.m:77`);
* a refresh of the installed packages appends to the list
  (`YumListInstalledViewController.m:219`), and the screen of the available ones asks
  about the row tapped before (`YumInstallNewViewController.m:180`);
* after a yum screen has requested a terminal, the apt screens of the same session list
  sudo's prompt with their first package, or raise (`YumInstallNewViewController.m:41`,
  `AptGetInstallNewViewController.m:51`).

Properties that hold with a qualification say so in their definition, and the
qualification is the code's: `CommandGoesToTitledService` speaks of taps on a
settled list, since before that the loader moves rows under the alert;
`FitsItsType` leaves out TINYINT and YEAR, whose branches set only some of the
fields, and columns updated under another type, which keep the old one;
`ModifiersMatchFlags` admits the empty modifiers of a cancelled edit;
`StepOutInBounds` speaks of accounts whose shell prints a directory;
`CommandNamesAlertedPackage` excepts a search that is handled between a tap and its
deferred alert; `SendsOnlyAuthorized` leaves out the tools, which are handed an
authorized session and never ask again; `CreatedScriptsDurable` speaks of creations,
since only they look at the outcome of the save, and claims the text that was typed
only of a form that still held its script; `ListedPackagesStay`
speaks of the packages a screen shows (`Shown`: not those of other architectures among
the available with yum) and leaves out the listings of apt in a terminal.

## 4. Proofs

The proof modules prove `Spec => []IInv` from `Init => IInv` and one lemma per
action (or group of actions that touch the same variables), and derive the
properties from `IInv`, which TLC checked on the instance of the run first. The
theorems hold for every value of the constants under the assumptions of the
modules, which say no more than this:

* `ServiceManager`: `InitD` is a sequence without repetitions and `Nil` is not one of
  its names;
* `ServerStore`: the two seed lists are not empty, equally long and name no system
  `None`;
* `LinuxServer`: `Blank` and `Gone` differ and are no texts, the bounds are natural
  numbers;
* `VoiceControl`: the stored servers are listed once, the MySQL servers are among the
  servers, `Nil` is none of them;
* `PackageManager`: the catalogue is a sequence without repetitions, wrapped entries and
  those of other architectures are of its packages, no package has the name of one of the other first words ("Installed",
  "sudo:", the empty one...), the bound on removals is a natural number;
* `MySQLBrowser`: `None` is neither a schema nor a table, the depth is at least 1;
* `ColumnForm`: the picker offers at least one type and only types the code knows, its
  switches are those of the form, `None` is no column;
* `TableDesigner`: `None` is neither a column nor a table;
* `SFTPBrowser`: no name is empty or a blank, every path's directory is a path, logins
  are paths, `None` is neither a path nor a name.

*ServiceManager* (`TypeCorrect`, `StatusOwned`, `CommandsTitled`, `RowsMatch`).
`StatusBelongsToService` is not inductive: the loader stores the answer of the
service it asked at index `i`, so it has to be known that the array is still the
prefix of the listing it appended (`LoadedPrefix`), and that the handler, which
writes through an object, asks about the same object (`HandlerReads`).
`CommandGoesToTitledService` needs that a settled alert's row still holds the
service of its title (`AlertKeepsRow`), which needs in turn that no tap is made
under the overlay (`NoTapWhileLoading`) and that the loader, once done, is never
at work again (`StateOK`, `FlagsOK`).

*ServerStore* (`TypeCorrect`, `ChosenSystemKept`, `PickerIsComplete`,
`ReportsDurable`, `DeletionsAsked`). `ResolvesToChosen` holds although two lists
compete, because a row of the operating systems is never rewritten: neither in
the context nor on disk does an id change its name once it has one (`RowsKept`
says how the two agree); the form offers only what the context holds
(`SeededSoFar`, `PickerComplete`); an edited or deleted server is one that was
listed (`OverviewHeld`, `ListsHeld`); a server missing from the context but not
from the store was asked to be deleted (`PendingAsked`); and a report is never
contradicted by a later save (`ReportsHold`). `DeletionsAsked` is the action
property that follows.

*LinuxServer* (`TypeCorrect`, `SavedPasswordSent`, `AuthorizedSent`,
`CreationsDurable`, `ScriptDeletionsAsked`, `ImplementsScriptStore`). The invariant has
one part per component, and two lemmas say what a step of the screens is to each:
an operation of `ScriptStore` or none (`StepIsScriptStep`), a step of `LinuxSession`,
a question of the script list, or none (`StepIsSessionStep`). The first needs that
every form and every options screen on the stack is about a script (`StackOK`), and
is the refinement `Spec => Scripts!Spec`. `CreatedScriptsDurable` becomes inductive
with the context (`PromisesHeld`): a save of anything writes the whole context. Of
the reports of forms without their script only the presence of the script is kept.
`OnlyAskedScriptDeletions` needs that what is missing from the context and not from
the store was asked for (`PendingAsked`). `SudoCarriesSavedPassword` needs that the
menu of a connected session holds the stored password even while it is not
authorized (`MenuHoldsSaved`), because the console may authorize it; and that no tool
outlives its menu (`ToolHoldsSaved`), because opening the menu forgets which alerts
were answered.

*VoiceControl* (`VoiceTypeCorrect`, `SpokenSafe`, `RecognizerHeld`, `SelectionKept`). The
branches of the callback search the servers for the first match and walk them until
a MySQL server stops the loop; that the search finds one is the least element of a
set of indexes (`LeastExists`). `SelectionNeverLost`, an action property, needs that
nothing can be selected before the setup block has made its reset: until then there
are no servers to select (`SelectionOK`).

*MySQLBrowser* (`TypeCorrect`, `DropsTheRightTable`, `DroppedStaysUnlisted`).
`DROP TABLE` names no schema, and the database selected on the server is changed by
other screens. The report is true because the options screen selects its schema in
the same handler; that its frame names a table, and that it is still in front when
the answer comes, is `StackOK` and `AlertOK`. `DroppedIsNotListed` is strengthened
by the list below an open designer, to which one goes back without reading it again
(`ListsOK`), and by what the server holds (`DroppedOK`): a list read again does not
show what is not there. Marking copies stale leaves every screen what it is
(`StaledOK`, `SameScreensKeep`), so a drop and the designer's execution keep the stack's
part of the invariant (`ToolKeeps`, `DesignerKeeps`). The actions are grouped by what they change
(`ChangesServer`, `ChangesDropped`, the screens).

*ColumnForm* (`TypeCorrect`, `ModifiersMatch`, `ColumnFits`, `PickerShowsFields`,
`KeysNeverAdded`). What a submit stores depends on the types tried before, so the
invariant speaks of the open form: its switches and length suit the type whose
branch last set them (`FormFits`), which is the picker's unless it shows TINYINT
(`FormAgrees`), and an edit starts from empty modifiers with the keys the column was
saved without locked (`EditOK`). YEAR leaves the length alone and not the switches,
so the flags of a column suit it also there (`FlagsFit`). What each branch does is
one lemma (`ApplyTypeOK`); that the modifiers hold no default but the one asked for,
quoted or not, is another (`ModifiersOK`).

*TableDesigner* (`TypeCorrect`, `NoColumnTwice`, `CommasRight`). The statement shown
is that of the columns and keys now in the designer (`StatementIsCurrent`), since
nothing behind the alert changes them. That three lists joined, each with its own
commas, have exactly one comma between any two entries is proved for lists of any
length (`ListedElements`, `ListedJoin`): an entry is at an odd place, a comma at an
even one. The columns with a key are a `Sublist`, whose type and length rest on the
fact that the k-th index of a finite set exists (`NthIsIndex`).

*SFTPBrowser* (`TypeCorrect`, `StepOutSafe`, `SavesOver`, `TracksDirectory`). The last
one is the refinement `Spec => Walk!Spec`: the file manager, which edits text,
implements the working directory `SFTPHelper.h` speaks of. Every text the helper
holds has the shape of a path (`Shape`): at most two slashes, the names, one slash;
no slash at all only when the shell printed nothing. `SteppedIntoShape` says that
appending "/name/" and replacing double slashes once makes of that shape the shape
of the longer path: it counts which slashes of the run at the end and of the run at
the start go (`DropRules`). `SteppedOutShape` says the same of splitting and
rebuilding, and `SublistIs` is the fact on which both rest: what a loop keeps is
found by any increasing list of the indexes kept. The stack is a piece of the
sequence list, overview, browser, file (`At`), from which closing may cut the first
screens off; so an editor is always above its browser, whose text cannot change under
it, and a file is saved where it was opened (`EditorOK`). Rows that others have
removed meanwhile are still entries of paths of the directory (`ListingOK`). Each
action maps to a step of `WorkingDirectory` or leaves it alone (`Moves`); closing the
browser a second time, and a crash in stepping out, leave it alone.

*PackageManager* (`PackageTypeCorrect`, `CommandNamesRow`, `RowsBounded`,
`ListingStays`). The screens are proved together with their parser. What a loop keeps
of the lines is a `Sublist`, and an index kept has a place of its own in it: the number
of indexes kept up to it (`SublistAt`). From that follow the facts about the listing:
every package has a line of its own, wrapped or not (`EntriesOK`); taking the first
empty line out and then two more loses no package, because the two lines before the
entries are never empty (`BannerDropped`, `StrippedOK`); and no loop skips the
line of a package that its screen shows (`SkippedOK`). All of it is claimed of a listing
that sudo lets through and does not write into (`Whole`). `ListedPackagesStay` becomes inductive with the lines still to be
parsed (`ListedOK`), and survives a command because the screens of the installed
packages never offer an installation (`EffectOK`, from `AlertsOK`). `RowsInRange` needs
that the block empties only a table that is empty (`LoadOK`) and that a search of an
empty table finds nothing (`FilterOK`): otherwise the filter it resets would change the
array under the table. `CommandNamesAlertedPackage` needs that an alert's row holds its
title until a search is made, hence that no alert is open while the block writes
(`AlertsOK`): a tap goes through only without the overlay, and before the overlay is up
there is no row to tap.

*Only model-checked.* The liveness properties `LoadSettles` (of services and of
packages) and `ListeningEnds`: liveness under fairness is out of the prover's reach.
Every other property of the passing runs is a theorem. What an operator defined by
recursion returns for every input takes an induction that the provers cannot do; the
operators on listings, path texts and keys (`Matching`, `WithoutEmpty`, `Entries`, `Dropped`,
`Directory`, `WithKey`) are therefore defined by sets of indexes.

## 5. Not modelled

* the wording of messages, layout, logging, the text fields of a server;
* concurrent use of one SSH channel or of one Core Data context by two threads:
  the outcome is the library's, and the model makes each call one step;
* bytes and encodings of SQL texts (`MySQLTable.m:95` passes a length in UTF-16
  units), and the cells of result sets, except that a NULL raises;
* the voice screen's list of servers after another tab has changed them: the screen
  keeps the managed objects it read, and what a deleted one answers is Core Data's
  choice;
* the components marked `not_modelled` in `PROJECT.json`: speech word lists (their
  callers are commented out), static screens and vendored code (no state the rest
  depends on). The C headers under `include/`, `OpenEars.framework` and
  `NMSSH.framework`, which are most of the repository's lines, are interfaces of
  libraries whose code is not in it; the app itself is Objective-C.

## 6. Plan

1. Core, done: services, voice, store, files, column form, designer; proofs of
   `ServerStore` and `ServiceManager`.
2. Extension, done: packages, MySQL screens, Linux session and scripts; proofs of
   `LinuxServer`.
3. Proofs, done: `VoiceControl`, `MySQLBrowser`, `ColumnForm`, `TableDesigner`,
   `SFTPBrowser` with its refinement of `WorkingDirectory`, `PackageManager` with its
   parser.
4. Left: the list of servers that the voice screen keeps while another tab changes the
   store (`VoiceListenerViewController.m:70`), as a composition of `VoiceControl` and
   `ServerStore`.
