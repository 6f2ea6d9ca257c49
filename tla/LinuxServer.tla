----------------------------- MODULE LinuxServer -----------------------------
(***************************************************************************)
(* The screens of a Linux server on their navigation stack: the menu and   *)
(* what it opens (tools, console and its history, scripting), and the      *)
(* screens of the scripts (list, form, options, result).  The session is   *)
(* that of LinuxSession, the scripts are those of ScriptStore; this module *)
(* says which screen makes which of their steps, and when.                 *)
(***************************************************************************)
EXTENDS Integers, Sequences

CONSTANTS Ids, Texts, Blank, Gone,   \* of the scripts
          MaxHistory,                \* bound on the console's history
          MaxDepth                   \* bound on the navigation stack

ASSUME LinuxAssumption ==
    /\ Blank \notin Texts /\ Gone \notin Texts /\ Blank # Gone
    /\ MaxHistory \in Nat /\ MaxDepth \in Nat

VARIABLES
    saved, connected, authorized, temp, answered, handed, usage, history,
    executed, alert, main,                \* the session
    context, stored, promised, unheld, asked,   \* the scripts
    stack                                 \* the screens above the overview

session == <<saved, connected, authorized, temp, answered, handed, usage, history,
             executed, alert, main>>
scripts == <<context, stored, promised, unheld, asked>>
vars == <<session, scripts, stack>>

Session == INSTANCE LinuxSession
Scripts == INSTANCE ScriptStore

Kinds == {"menu", "usage", "tool", "console", "history", "scripting", "list", "modalList",
          "form", "options", "result"}

\* A screen: the script of a form or of options, whether the form creates, and
\* the rows of a list.
Frames == [kind : Kinds, of : Ids \cup {Gone}, creating : BOOLEAN, rows : SUBSET Ids]

Frame(kind) == [kind |-> kind, of |-> Gone, creating |-> FALSE, rows |-> {}]

TypeOK ==
    /\ Session!SessionTypeOK
    /\ Scripts!StoreTypeOK
    /\ alert \in {"none", "prompt", "ask", "noConnection", "empty"}
    /\ main \in {"closed", "menu", "usage", "loop", "crashed"}
    /\ stack \in Seq(Frames) /\ Len(stack) <= MaxDepth

Init == Session!Init /\ Scripts!Init /\ stack = <<>>
-----------------------------------------------------------------------------
Top == stack[Len(stack)]
Below == SubSeq(stack, 1, Len(stack) - 1)
InFront(kind) == main = "menu" /\ alert = "none" /\ stack # <<>> /\ Top.kind = kind

Push(frame) == Len(stack) < MaxDepth /\ stack' = Append(stack, frame)

\* A step of the session that changes neither screens nor scripts.
SessionOnly == UNCHANGED <<scripts, stack>>

OpenMenu == stack = <<>> /\ Session!Open /\ Push(Frame("menu")) /\ UNCHANGED scripts
OpenUsage == stack = <<>> /\ Session!OpenUsage /\ Push(Frame("usage")) /\ UNCHANGED scripts

OpenTool == InFront("menu") /\ Session!OpenTool /\ Push(Frame("tool")) /\ UNCHANGED scripts

OpenConsole ==
    InFront("menu") /\ Session!OpenConsole /\ Push(Frame("console")) /\ UNCHANGED scripts

OpenHistory == InFront("console") /\ Push(Frame("history")) /\ UNCHANGED <<session, scripts>>

OpenScripting == InFront("menu") /\ Push(Frame("scripting")) /\ UNCHANGED <<session, scripts>>

\* The session's own steps, each on the screen that makes them.
SessionStep ==
    /\ \/ Session!PromptLoop
       \/ \E enter \in BOOLEAN : Session!AnswerAlert(enter)
       \/ InFront("menu") /\ (Session!Ask \/ Session!Reboot)
       \/ InFront("tool") /\ Session!ToolExecutes
       \/ InFront("console") /\ Session!ConsoleExecutes
       \/ Session!UsageExecutes
       \/ Session!Drop
    /\ SessionOnly
-----------------------------------------------------------------------------
(***************************************************************************)
(* The screens of the scripts.                                             *)
(***************************************************************************)
\* viewDidLoad of a list: it fetches, and asks when nothing was found, also when
\* the fetch failed.
Loads(kind) ==
    /\ \E rows \in {Scripts!Existing(context'), {}} :
          /\ Push([Frame(kind) EXCEPT !.rows = rows])
          /\ alert' = IF rows = {} THEN "empty" ELSE "none"
    /\ UNCHANGED <<saved, connected, authorized, temp, answered, handed, usage, history,
                   executed, main>>

NewForm(i) == Push([Frame("form") EXCEPT !.of = i, !.creating = TRUE])

OpenForm ==
    /\ InFront("scripting")
    /\ \E i \in Scripts!Fresh : Scripts!Insert({i}) /\ NewForm(i)
    /\ UNCHANGED session

OpenList == InFront("scripting") /\ UNCHANGED scripts /\ Loads("list")

\* The answer to "You haven't created any scripts": an object is inserted before
\* the button is looked at; a list presented modally has nothing to push on.
AnswerEmpty(create) ==
    /\ main = "menu" /\ alert = "empty"
    /\ \E i \in Scripts!Fresh :
          \/ /\ Top.kind = "modalList"
             /\ Scripts!Insert({i})
             /\ alert' = "none" /\ UNCHANGED stack
          \/ /\ Top.kind = "list" /\ ~create
             /\ Scripts!Insert({i})
             /\ Loads("list")
          \/ /\ Top.kind = "list" /\ create
             /\ \E j \in Scripts!Fresh \ {i} : Scripts!Insert({i, j}) /\ NewForm(j)
             /\ alert' = "none"
    /\ UNCHANGED <<saved, connected, authorized, temp, answered, handed, usage, history,
                   executed, main>>

TapScript(i) ==
    /\ InFront("list") /\ i \in Top.rows
    /\ Push([Frame("options") EXCEPT !.of = i])
    /\ UNCHANGED <<session, scripts>>

EditScript ==
    /\ InFront("options")
    /\ Push([Frame("form") EXCEPT !.of = Top.of])
    /\ UNCHANGED <<session, scripts>>

\* onSaveBtnClick: whatever becomes of the save, a list is pushed.
SaveForm(text) ==
    /\ InFront("form")
    /\ IF Top.creating
       THEN Scripts!Create(Top.of, text) \/ Scripts!CreateNothing(Top.of, text)
       ELSE Scripts!Edit(Top.of, text)
    /\ Loads("list")

\* Run Script: a result, or back to the list when the channel reports an error.
RunScript ==
    /\ InFront("options")
    /\ Session!RunScript
    /\ \/ main' = "menu" /\ Push(Frame("result"))
       \/ main' = "menu" /\ stack' = Below
       \/ main' = "crashed" /\ UNCHANGED stack
    /\ UNCHANGED scripts

\* Delete Script: the new list is presented outside the navigation controller.
DeleteScript ==
    /\ InFront("options")
    /\ Scripts!Delete(Top.of)
    /\ Loads("modalList")
-----------------------------------------------------------------------------
\* The back button; a list presented modally has none.
Back ==
    /\ alert = "none" /\ Len(stack) > 1 /\ Top.kind # "modalList" /\ main = "menu"
    /\ IF Top.kind = "tool" THEN Session!CloseTool ELSE UNCHANGED session
    /\ stack' = Below
    /\ UNCHANGED scripts

BackToOverview == Len(stack) = 1 /\ Session!Leave /\ stack' = <<>> /\ UNCHANGED scripts

\* A save made in another tab.
SaveOther ==
    /\ alert = "none" /\ main \in {"closed", "menu", "usage"}
    /\ \A k \in DOMAIN stack : stack[k].kind # "modalList"
    /\ Scripts!SaveOther
    /\ UNCHANGED <<session, stack>>

Relaunch == Session!Relaunch /\ Scripts!Relaunch /\ stack' = <<>>

Next ==
    \/ OpenMenu \/ OpenUsage \/ OpenTool \/ OpenConsole \/ OpenHistory \/ OpenScripting
    \/ SessionStep
    \/ OpenForm \/ OpenList \/ (\E create \in BOOLEAN : AnswerEmpty(create))
    \/ (\E i \in Ids : TapScript(i)) \/ EditScript \/ (\E text \in Texts : SaveForm(text))
    \/ RunScript \/ DeleteScript
    \/ Back \/ BackToOverview \/ SaveOther \/ Relaunch

Spec == Init /\ [][Next]_vars
-----------------------------------------------------------------------------
(***************************************************************************)
(* Properties: those of the two parts, on the behaviours the screens allow.*)
(***************************************************************************)
\* Until an alert of the menu is answered, a reboot, a tool or the usage screen
\* pipes the stored password into sudo (ManageServerLinuxViewController.m).
SudoCarriesSavedPassword == Session!SudoCarriesSavedPassword

\* No screen but a tool sends a command over a session that is not authorized
\* at that moment (ScriptOptionsViewController.m, LinuxConsoleViewController.m).
SendsOnlyAuthorized == Session!SendsOnlyAuthorized

\* A script reported as created is in the store until it is edited, deleted or
\* saved again: as typed if its form held it, and otherwise as it was saved
\* before (ScriptCreateEditViewController.m lines 65-70).
CreatedScriptsDurable == Scripts!CreatedScriptsDurable

\* The store loses a script only after Delete Script was chosen for it, although
\* a deletion whose save failed is written by whatever is saved next.
OnlyAskedScriptDeletions == [][Scripts!LosesOnlyAsked]_vars
=============================================================================
