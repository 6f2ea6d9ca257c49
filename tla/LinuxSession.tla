---------------------------- MODULE LinuxSession -----------------------------
(***************************************************************************)
(* The SSH session of a Linux server and the password that goes with it.   *)
(* The menu (ManageServerLinuxViewController.m) connects, authenticates    *)
(* with the stored password or prompts for one, and hands session and      *)
(* password to the tools (services, packages); the console authenticates   *)
(* again before every command; the usage screen (opened from the overview) *)
(* has a session of its own.                                               *)
(*                                                                         *)
(* A password is "saved" (the server's own), "typed" (into an alert) or    *)
(* "nil".  A reboot and the tools pipe it into sudo.                       *)
(***************************************************************************)
EXTENDS Integers

CONSTANTS MaxHistory   \* bound on the console's history

VARIABLES
    saved,        \* isPasswordSaved: of the server
    connected,    \* session.isConnected
    authorized,   \* session.isAuthorized
    temp,         \* tempPassword of the menu
    answered,     \* an alert with the menu as its delegate has been answered
    handed,       \* the tempPassword of the open tool, or "closed"
    usage,        \* the session of the usage screen
    history,      \* the length of the console's commandHistory
    executed,     \* the last command sent: by which screen, with which password
    alert,        \* the alert in front
    main          \* the main thread

vars == <<saved, connected, authorized, temp, answered, handed, usage, history,
          executed, alert, main>>
link == <<saved, connected>>

Passwords == {"saved", "typed", "nil"}
Senders == {"reboot", "tool", "console", "usage", "script"}

NoCommand == [by |-> "nobody", password |-> "unused", authorized |-> FALSE]
Commands == [by : Senders, password : Passwords \cup {"unused"}, authorized : BOOLEAN]

\* The history holds commands and responses by turns.
SessionTypeOK ==
    /\ {saved, connected, authorized, answered} \subseteq BOOLEAN
    /\ temp \in Passwords
    /\ handed \in Passwords \cup {"closed"}
    /\ usage \in {"closed", "connected", "authorized", "lost"}
    /\ history \in 0..MaxHistory /\ history % 2 = 0
    /\ executed \in Commands \cup {NoCommand}

Init ==
    /\ saved = FALSE /\ connected = FALSE /\ authorized = FALSE
    /\ temp = "nil" /\ answered = FALSE
    /\ handed = "closed" /\ usage = "closed" /\ history = 0
    /\ executed = NoCommand
    /\ alert = "none" /\ main = "closed"
-----------------------------------------------------------------------------
\* The run loop is free and no alert is in front.
Ready(screen) == main = screen /\ alert = "none"

\* A command goes out over the session as it then is.
Sends(by, password, ok) ==
    executed' = [by |-> by, password |-> password, authorized |-> ok]

\* authenticateByPassword: an authorized session stays authorized; otherwise the
\* server may refuse the password or not answer.
Authenticate == authorized' \in {TRUE, authorized}

\* Mutant: the password is kept only when the server has accepted it.
KeptIfAccepted(accepted) == IF accepted THEN "saved" ELSE "nil"

\* The stored password is kept whether or not the server has accepted it.
Kept(accepted) == "saved"

\* viewDidLoad of the menu.  Whether a password is stored may have changed since
\* the last time.
Open ==
    /\ Ready("closed")
    /\ saved' \in BOOLEAN /\ answered' = FALSE /\ executed' = NoCommand
    /\ \/ /\ connected' = TRUE /\ saved'
          /\ authorized' \in BOOLEAN
          /\ temp' = Kept(authorized')
          /\ main' = "menu" /\ alert' = "none"
       \/ /\ connected' = TRUE /\ ~saved'
          /\ authorized' = FALSE /\ temp' = "nil"
          /\ main' = "loop" /\ alert' = "none"
       \/ /\ connected' = FALSE /\ authorized' = FALSE /\ temp' = "nil"
          /\ main' = "menu" /\ alert' = "noConnection"
    /\ UNCHANGED <<handed, usage, history>>

\* One round of "while (tempPassword == nil)", or its end.
PromptLoop ==
    /\ main = "loop"
    /\ IF temp = "nil"
       THEN alert' = "prompt" /\ UNCHANGED <<authorized, main>>
       ELSE Authenticate /\ main' = "menu" /\ UNCHANGED alert
    /\ UNCHANGED <<link, temp, answered, handed, usage, history, executed>>

\* alertView:clickedButtonAtIndex: is called by the run loop.  The alert about
\* the connection has an Enter button and no text field to read.
AnswerAlert(enter) ==
    /\ main = "menu" /\ alert \in {"prompt", "ask", "noConnection"}
    /\ IF enter /\ alert = "noConnection"
       THEN main' = "crashed" /\ UNCHANGED <<temp, answered>>
       ELSE /\ temp' = IF enter THEN "typed" ELSE "nil"
            /\ answered' = TRUE
            /\ UNCHANGED main
    /\ alert' = "none"
    /\ UNCHANGED <<link, authorized, handed, usage, history, executed>>

\* "Session is not authorized": the answer is kept and authenticates nothing.
Ask ==
    /\ Ready("menu") /\ ~authorized
    /\ alert' = "ask"
    /\ UNCHANGED <<link, authorized, temp, answered, handed, usage, history, executed, main>>

Reboot ==
    /\ Ready("menu") /\ authorized
    /\ Sends("reboot", temp, authorized)
    /\ UNCHANGED <<link, authorized, temp, answered, handed, usage, history, alert, main>>

\* Services and packages get the session and the password of this moment.
OpenTool ==
    /\ Ready("menu") /\ authorized
    /\ handed' = temp
    /\ UNCHANGED <<link, authorized, temp, answered, usage, history, executed, alert, main>>

\* Every command of a tool is piped the password it was handed.
ToolExecutes ==
    /\ Ready("menu") /\ handed # "closed"
    /\ Sends("tool", handed, authorized)
    /\ UNCHANGED <<link, authorized, temp, answered, handed, usage, history, alert, main>>

CloseTool ==
    /\ Ready("menu") /\ handed # "closed"
    /\ handed' = "closed"
    /\ UNCHANGED <<link, authorized, temp, answered, usage, history, executed, alert, main>>
-----------------------------------------------------------------------------
(***************************************************************************)
(* The console, scripts, and the usage screen.                             *)
(***************************************************************************)
OpenConsole ==
    /\ Ready("menu")
    /\ history' = 0
    /\ UNCHANGED <<link, authorized, temp, answered, handed, usage, executed, alert, main>>

\* Mutant: the command is added to the history before its outcome is known.
RecordsEarly == history' \in {history + 1, history + 2}

\* A command that returned is added with its response.
Records == history' \in {history, history + 2}

\* executeCommand: of the console.
ConsoleExecutes ==
    /\ Ready("menu") /\ connected
    /\ history + 2 <= MaxHistory
    /\ Authenticate
    /\ IF authorized'
       THEN Sends("console", "unused", authorized') /\ Records
       ELSE UNCHANGED <<history, executed>>
    /\ UNCHANGED <<link, temp, answered, handed, usage, alert, main>>

\* Mutant: the list is presented and the method goes on.
RunScriptFallsThrough ==
    /\ Ready("menu")
    /\ Sends("script", "unused", authorized)
    /\ UNCHANGED <<link, authorized, temp, answered, handed, usage, history, alert, main>>

\* Run Script.  Without a session a controller is presented that was never made,
\* which raises; nothing else keeps the method from sending the script.
RunScript ==
    /\ Ready("menu")
    /\ IF connected /\ authorized
       THEN Sends("script", "unused", authorized) /\ UNCHANGED main
       ELSE main' = "crashed" /\ UNCHANGED executed
    /\ UNCHANGED <<link, authorized, temp, answered, handed, usage, history, alert>>

\* systemOverviewOnClick: the screen is shown if the connection is made.
OpenUsage ==
    /\ Ready("closed")
    /\ usage' = "connected" /\ main' = "usage" /\ executed' = NoCommand
    /\ UNCHANGED <<link, authorized, temp, answered, handed, history, alert>>

\* executeCommand: of the usage screen.
UsageExecutes ==
    /\ Ready("usage") /\ usage \in {"connected", "authorized"}
    /\ usage' \in {"authorized", usage}
    /\ IF usage' = "authorized" THEN Sends("usage", "saved", TRUE) ELSE UNCHANGED executed
    /\ UNCHANGED <<link, authorized, temp, answered, handed, history, alert, main>>

\* Back to the overview; the session goes with its screen.
Leave ==
    /\ Ready("menu") \/ Ready("usage")
    /\ main' = "closed" /\ usage' = "closed" /\ handed' = "closed"
    /\ connected' = FALSE /\ authorized' = FALSE /\ executed' = NoCommand
    /\ UNCHANGED <<saved, temp, answered, history, alert>>

\* The connection breaks and the library notices.
Drop ==
    /\ \/ /\ connected /\ connected' = FALSE /\ authorized' = FALSE
          /\ UNCHANGED usage
       \/ /\ usage \in {"connected", "authorized"} /\ usage' = "lost"
          /\ UNCHANGED <<connected, authorized>>
    /\ UNCHANGED <<saved, temp, answered, handed, history, executed, alert, main>>

\* The app is ended and launched again.
Relaunch ==
    /\ saved' = FALSE /\ connected' = FALSE /\ authorized' = FALSE
    /\ temp' = "nil" /\ answered' = FALSE
    /\ handed' = "closed" /\ usage' = "closed" /\ history' = 0
    /\ executed' = NoCommand
    /\ alert' = "none" /\ main' = "closed"

Next ==
    \/ Open \/ PromptLoop \/ (\E enter \in BOOLEAN : AnswerAlert(enter))
    \/ Ask \/ Reboot \/ OpenTool \/ ToolExecutes \/ CloseTool
    \/ OpenConsole \/ ConsoleExecutes \/ RunScript
    \/ OpenUsage \/ UsageExecutes \/ Leave \/ Drop \/ Relaunch

\* The loop runs as long as it can, and the user answers an alert that can be
\* answered.
Fairness == WF_vars(PromptLoop) /\ WF_vars(\E enter \in BOOLEAN : AnswerAlert(enter))

Spec == Init /\ [][Next]_vars /\ Fairness
-----------------------------------------------------------------------------
(***************************************************************************)
(* Properties.                                                             *)
(***************************************************************************)
\* Until the user has answered an alert of the menu, every command that pipes a
\* password into sudo pipes the stored one: a session that is authorized late
\* (by the console, after a first refusal) still finds it in tempPassword.
SudoCarriesSavedPassword ==
    executed.password # "unused" /\ ~answered => executed.password = "saved"

\* A reboot, a console command, a script or a usage query is sent only over a
\* session that is authorized at that moment, however many screens ago it was
\* opened.  (The tools are handed an authorized session and never ask again.)
SendsOnlyAuthorized == executed.by \notin {"nobody", "tool"} => executed.authorized

\* The loop "just continually prompt them until we get a password" ends: the user
\* can answer one of its alerts (ManageServerLinuxViewController.m, lines 43-50).
PromptAnswered == main = "loop" ~> main # "loop"
=============================================================================
