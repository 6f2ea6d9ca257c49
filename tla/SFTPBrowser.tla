---------------------------- MODULE SFTPBrowser -----------------------------
(***************************************************************************)
(* The file manager: the directory browser (SFTPTableViewController.m),    *)
(* the file editor (SFTPFileViewController.m), the helpers that keep the   *)
(* working directory as text (SFTPHelper.m, SFTPFileHelper.m,              *)
(* SFTPDirectoryHelper.m), and the navigation stack they are pushed on.    *)
(*                                                                         *)
(* A path text is modelled by its components, the pieces between slashes:  *)
(* "/a/" is <<"", "a", "">> and "" is <<"">>.  Other users of the server   *)
(* change its files at any time.                                           *)
(***************************************************************************)
EXTENDS Integers, Sequences, FiniteSets, Sublists

CONSTANTS Names,     \* names of files and directories
          Paths,     \* the paths at which the server may have an entry
          Homes,     \* the login directories of the accounts
          None       \* no file, no report

ASSUME BrowserAssumption ==
    /\ Names \cap {"", " "} = {}
    /\ Paths \subseteq Seq(Names) /\ <<>> \in Paths
    /\ \A p \in Paths : p # <<>> => SubSeq(p, 1, Len(p) - 1) \in Paths
    /\ Homes \subseteq Paths
    /\ None \notin Paths /\ None \notin Names

Screens == {"list", "overview", "sftp", "file"}

VARIABLES
    home, shell,  \* the account: its login directory, and whether the command
                  \* `pwd` prints ("prints") or an sftp-only shell is "silent"
    fs,           \* the server's files: kind of every path
    stack,        \* the navigation stack, bottom first
    crashed,      \* "no", or the handler that raised
    link,         \* the connection: "closed", a "session", or one with "sftp"
    pwd,          \* SFTPHelper's working directory, as components
    listing,      \* _fileDirectoryList: rows with name and isDirectory
    editor,       \* the open file: its state, its helper's pwd, its name
    last          \* the last remote change the app made

account == <<home, shell>>
browserVars == <<link, pwd, listing>>
vars == <<home, shell, fs, stack, crashed, link, pwd, listing, editor, last>>

Rows == [name : Names, isDir : BOOLEAN]

NoEditor == [state |-> "closed", dir |-> <<"">>, name |-> None]
NoChange == [op |-> "none", row |-> None, path |-> None]

TypeOK ==
    /\ home \in Homes
    /\ shell \in {"prints", "silent"}
    /\ fs \in [Paths -> {"none", "file", "dir"}]
    /\ stack \in Seq(Screens) /\ Len(stack) \in 1..4
    /\ crashed \in {"no", "stepOut", "close"}
    /\ link \in {"closed", "session", "sftp"}
    /\ pwd \in Seq(Names \cup {""})
    /\ listing \subseteq Rows
    /\ editor.state \in {"closed", "unreadable", "readOnly", "editing", "prompt", "saved"}
    /\ editor.dir \in Seq(Names \cup {""}) /\ editor.name \in Names \cup {None}
    /\ last.op \in {"none", "delete", "save"}
    /\ last.row \in Paths \cup {None} /\ last.path \in Paths \cup {None}
-----------------------------------------------------------------------------
(***************************************************************************)
(* Path texts.                                                             *)
(***************************************************************************)
\* The empty components before the end that run up to component k.
BlanksUpTo(text, k) == {j \in 2..k : \A i \in j..k : text[i] = ""}

\* stringByReplacingOccurrencesOfString:@"//" withString:@"/": of a run of
\* slashes every second one goes, and the empty component with it.
Dropped(text) == {k \in 2..(Len(text) - 1) : Cardinality(BlanksUpTo(text, k)) % 2 = 1}

Squeeze(text) == Sublist(text, (1..Len(text)) \ Dropped(text))

\* getPwd: the newline `pwd` prints becomes a slash.
HomeText == IF home = <<>> THEN <<"", "", "">> ELSE <<"">> \o home \o <<"">>

\* Mutant: a failing `pwd` leaves the text empty.
LoginTextsEmpty == {<<"">>} \cup IF shell = "prints" THEN {HomeText} ELSE {}

\* initWithSession:, in which `pwd` may fail at any time.
LoginTexts == {<<"", "">>} \cup IF shell = "prints" THEN {HomeText} ELSE {<<"">>}

\* The path the server makes of a text.
Directory(text) == Sublist(text, {k \in 1..Len(text) : text[k] # ""})

\* "%@/%@" with a directory's text and a file's name: the path that is opened,
\* written or removed.
FilePath(text, name) == Append(Directory(text), name)

\* Directories are listed with a slash after their name.
DirectoryLabel(name) == <<name, "">>

\* stepIntoDirectory:
SteppedInto(text, name) == Squeeze(text \o DirectoryLabel(name))

\* Mutant: the last three components are left out.
SteppedOutTooFar(text) ==
    LET keep == {k \in 1..(Len(text) - 3) : text[k] \notin {"", " "}}
    IN <<"">> \o Sublist(text, keep) \o <<"">>

\* stepOutOfDirectory: the components before the last two, blank ones left out,
\* each with a slash behind it.
SteppedOut(text) ==
    LET keep == {k \in 1..(Len(text) - 2) : text[k] \notin {"", " "}}
    IN <<"">> \o Sublist(text, keep) \o <<"">>

-----------------------------------------------------------------------------
(***************************************************************************)
(* The server.                                                             *)
(***************************************************************************)
Top == stack[Len(stack)]
Push(screen) == stack' = Append(stack, screen)
Pop == stack' = SubSeq(stack, 1, Len(stack) - 1)

DirOf(path) == SubSeq(path, 1, Len(path) - 1)
IsDir(path) == path \in Paths /\ fs[path] = "dir"
InDir(path) == {p \in Paths \ {<<>>} : DirOf(p) = path /\ fs[p] # "none"}

\* Every entry is in a directory.
Tree(f) == f[<<>>] = "dir"
           /\ \A p \in Paths \ {<<>>} : f[p] # "none" => f[DirOf(p)] = "dir"

\* getDirectoryList: nothing when disconnected, when the listing fails or when
\* the text is empty.
Listings ==
    {{}} \cup IF link = "sftp" /\ Len(pwd) > 1
              THEN {{[name |-> p[Len(p)], isDir |-> fs[p] = "dir"] : p \in InDir(Directory(pwd))}}
              ELSE {}

\* reloadFilesAndDirectories, after the rest of the handler.
Reload == listing' \in Listings'

Init ==
    /\ home \in Homes /\ shell \in {"prints", "silent"}
    /\ fs \in [Paths -> {"none", "file", "dir"}] /\ Tree(fs)
    /\ stack = <<"list", "overview">>
    /\ crashed = "no" /\ link = "closed"
    /\ pwd = <<"">> /\ listing = {}
    /\ editor = NoEditor /\ last = NoChange

\* Somebody else adds an empty directory or a file, or removes an entry.
OtherUser ==
    /\ \E p \in Paths, kind \in {"none", "file", "dir"} :
          /\ fs[p] # kind
          /\ fs' = [fs EXCEPT ![p] = kind]
          /\ Tree(fs')
    /\ UNCHANGED <<account, stack, crashed, browserVars, editor, last>>
-----------------------------------------------------------------------------
(***************************************************************************)
(* The directory browser.                                                  *)
(***************************************************************************)
\* onFileManagerClicked with an authorized session, then viewDidLoad.
OpenBrowser ==
    /\ Top = "overview"
    /\ Push("sftp")
    /\ link' \in {"session", "sftp"}
    /\ pwd' \in LoginTexts
    /\ UNCHANGED <<account, fs, crashed, editor, last>>
    /\ Reload

Refresh ==
    /\ Top = "sftp"
    /\ UNCHANGED <<account, fs, stack, crashed, link, pwd, editor, last>>
    /\ Reload

StepInto(row) ==
    /\ Top = "sftp" /\ row.isDir
    /\ pwd' = SteppedInto(pwd, row.name)
    /\ UNCHANGED <<account, fs, stack, crashed, link, editor, last>>
    /\ Reload

\* With no slash in the text, count - 2 wraps around and the loop runs past
\* the array.
StepOut ==
    /\ Top = "sftp"
    /\ IF Len(pwd) >= 2
       THEN pwd' = SteppedOut(pwd) /\ UNCHANGED crashed
       ELSE UNCHANGED pwd /\ crashed' = "stepOut"
    /\ UNCHANGED <<account, fs, stack, link, editor, last>>
    /\ IF crashed' = "no" THEN Reload ELSE UNCHANGED listing

\* removeFile and removeDirectory of a helper with a login directory of its
\* own; only an empty directory can be removed.
Removable(path, row) == link # "closed" /\ path \in Paths /\ path # <<>>
                        /\ fs[path] = (IF row.isDir THEN "dir" ELSE "file")
                        /\ InDir(path) = {}

DeleteRow(row) ==
    /\ Top = "sftp"
    /\ \E text \in LoginTexts :
          LET path == FilePath(text, row.name)
          IN \/ /\ Removable(path, row)
                /\ fs' = [fs EXCEPT ![path] = "none"]
                /\ last' = [op |-> "delete", row |-> FilePath(pwd, row.name), path |-> path]
             \/ UNCHANGED <<fs, last>>
    /\ UNCHANGED <<account, stack, crashed, link, pwd, editor>>
    /\ Reload

\* Mutant: the screen to return to is left out.
CloseBrowserEmpties ==
    /\ Top = "sftp"
    /\ link' = "closed"
    /\ stack' = <<>>
    /\ UNCHANGED <<account, fs, crashed, pwd, listing, editor, last>>

\* closeButtonPressed: the second screen of the stack becomes the only one.
CloseBrowser ==
    /\ Top = "sftp"
    /\ link' = "closed"
    /\ IF Len(stack) >= 2
       THEN stack' = <<stack[2]>> /\ UNCHANGED crashed
       ELSE UNCHANGED stack /\ crashed' = "close"
    /\ UNCHANGED <<account, fs, pwd, listing, editor, last>>
-----------------------------------------------------------------------------
(***************************************************************************)
(* The file editor.                                                        *)
(***************************************************************************)
\* Mutant: the editor's helper logs in for itself.
OpenFileAtLogin(row) ==
    /\ Top = "sftp" /\ ~row.isDir
    /\ Push("file")
    /\ \E text \in LoginTexts : editor' = [state |-> "editing", dir |-> text, name |-> row.name]
    /\ UNCHANGED <<account, fs, crashed, browserVars, last>>

\* A row that is a file: the editor's helper takes the browser's directory.  An
\* empty file is taken for an unreadable one.
OpenFile(row) ==
    /\ Top = "sftp" /\ ~row.isDir
    /\ Push("file")
    /\ \E state \in {"unreadable"} \cup
                    IF link = "sftp" /\ FilePath(pwd, row.name) \in Paths /\ fs[FilePath(pwd, row.name)] = "file"
                    THEN {"editing"} ELSE {} :
          editor' = [state |-> state, dir |-> pwd, name |-> row.name]
    /\ UNCHANGED <<account, fs, crashed, browserVars, last>>

\* newButtonPressed: the editor's helper logs in for itself.
NewFile ==
    /\ Top = "sftp"
    /\ Push("file")
    /\ \E text \in LoginTexts : editor' = [state |-> "editing", dir |-> text, name |-> None]
    /\ UNCHANGED <<account, fs, crashed, browserVars, last>>

\* "Would you like to try a read-only version?"  Yes leaves an empty editor
\* that cannot save.
TryReadOnly ==
    /\ Top = "file" /\ editor.state = "unreadable"
    /\ editor' = [editor EXCEPT !.state = "readOnly"]
    /\ UNCHANGED <<account, fs, stack, crashed, browserVars, last>>

AskFileName ==
    /\ Top = "file" /\ editor.state = "editing"
    /\ editor' = [editor EXCEPT !.state = "prompt"]
    /\ UNCHANGED <<account, fs, stack, crashed, browserVars, last>>

CancelSave ==
    /\ Top = "file" /\ editor.state = "prompt"
    /\ editor' = [editor EXCEPT !.state = "editing"]
    /\ UNCHANGED <<account, fs, stack, crashed, browserVars, last>>

\* A file can be written inside a directory, over a file or over nothing.
Writable(path) == link # "closed" /\ path \in Paths /\ path # <<>>
                  /\ fs[path] # "dir" /\ IsDir(DirOf(path))

\* The prompt offers the name the file was opened with; the user may type
\* another.  A failed write returns to the editor.
Save(name) ==
    /\ Top = "file" /\ editor.state = "prompt"
    /\ LET path == FilePath(editor.dir, name)
       IN \/ /\ Writable(path)
             /\ fs' = [fs EXCEPT ![path] = "file"]
             /\ editor' = [editor EXCEPT !.state = "saved"]
             /\ last' = [op |-> "save", path |-> path,
                         row |-> IF name = editor.name THEN FilePath(pwd, name) ELSE None]
          \/ /\ editor' = [editor EXCEPT !.state = "editing"]
             /\ UNCHANGED <<fs, last>>
    /\ UNCHANGED <<account, stack, crashed, browserVars>>

\* "No", "Ok" after saving, or the back button of the navigation bar.
LeaveFile ==
    /\ Top = "file" /\ editor.state # "prompt"
    /\ Pop
    /\ editor' = NoEditor
    /\ UNCHANGED <<account, fs, crashed, browserVars, last>>

\* The back button of the navigation bar, and a row of the server list.
LeaveOverview ==
    /\ Top = "overview" /\ Len(stack) > 1
    /\ Pop
    /\ UNCHANGED <<account, fs, crashed, browserVars, editor, last>>

OpenOverview ==
    /\ Top = "list"
    /\ Push("overview")
    /\ UNCHANGED <<account, fs, crashed, browserVars, editor, last>>

Next ==
    /\ crashed = "no"
    /\ \/ OtherUser
       \/ OpenBrowser \/ Refresh \/ StepOut \/ CloseBrowser \/ NewFile
       \/ \E row \in listing : StepInto(row) \/ DeleteRow(row) \/ OpenFile(row)
       \/ TryReadOnly \/ AskFileName \/ CancelSave \/ LeaveFile
       \/ \E name \in Names : Save(name)
       \/ LeaveOverview \/ OpenOverview

Spec == Init /\ [][Next]_vars
-----------------------------------------------------------------------------
(***************************************************************************)
(* Properties.                                                             *)
(***************************************************************************)
\* The text the helper edits is a working directory: split at its slashes,
\* rebuilt, cleaned of double slashes, and entered through rows that others may
\* have removed meanwhile, it always goes one name down or up.
Walk == INSTANCE WorkingDirectory
          WITH browsing <- \E k \in 1..Len(stack) : stack[k] = "sftp",
               cwd <- Directory(pwd), Starts <- Homes \cup {<<>>}
TracksWorkingDirectory == Walk!Spec

\* The loop bound count - 2 of stepOutOfDirectory wraps around only for an
\* account whose shell printed nothing for `pwd`.
StepOutInBounds == crashed = "stepOut" => shell = "silent"

\* A file opened from a row and saved under the name it was opened with is
\* written over that very file.
SaveOverwritesOpenedFile == last.op = "save" /\ last.row # None => last.path = last.row

\* The paths in directories below the login directory.
BelowLogin == {p \in Paths : Len(p) > Len(home) + 1 /\ SubSeq(p, 1, Len(home)) = home}

\* A row of a directory below the login directory is deleted where it was listed
\* (the alert reports "Deleted %@ successfully" for the row,
\* SFTPTableViewController.m lines 125 and 137).
DeletesListedRow ==
    last.op = "delete" /\ last.row \in BelowLogin => last.path = last.row
=============================================================================
