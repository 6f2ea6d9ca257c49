------------------------- MODULE LinuxServer_proofs -------------------------
(***************************************************************************)
(* What holds of the screens of a Linux server for every number of scripts *)
(* and texts and every bound on the stack and on the history.  The parts   *)
(* of the inductive invariant follow the parts of the model: the scripts   *)
(* (ScriptsOK), the session (SessionOK), the navigation stack (StackOK).   *)
(***************************************************************************)
EXTENDS LinuxServer, TLAPS

-----------------------------------------------------------------------------
(***************************************************************************)
(* The scripts.                                                            *)
(***************************************************************************)
\* A promise is kept by the context too, or the next save would break it.
PromisesHeld ==
    \A i \in Ids : promised[i] # Gone =>
        \/ stored[i] = promised[i] /\ context[i] = promised[i]
        \/ i \in unheld /\ stored[i] # Gone /\ context[i] # Gone

\* What the context has lost and the store has not was asked to be deleted.
PendingAsked == \A i \in Ids : context[i] = Gone /\ stored[i] # Gone => i \in asked

ScriptsOK == Scripts!StoreTypeOK /\ PromisesHeld /\ PendingAsked

\* A step of the scripts, or one of other parts.
ScriptStep == Scripts!Next \/ UNCHANGED scripts

\* The scripts start empty (ScriptDAO.m).
LEMMA ScriptsInit == ASSUME Init PROVE ScriptsOK
BY DEF Init, Scripts!Init, ScriptsOK, Scripts!StoreTypeOK, PromisesHeld, PendingAsked

\* Every operation on the scripts keeps their part of the invariant and loses
\* none that was not asked for.
LEMMA ScriptsKept ==
    ASSUME ScriptsOK, ScriptStep
    PROVE  ScriptsOK' /\ Scripts!LosesOnlyAsked
<1> USE LinuxAssumption DEF LinuxAssumption, ScriptsOK, Scripts!StoreTypeOK, PromisesHeld,
        PendingAsked, Scripts!LosesOnlyAsked
<1>1. CASE UNCHANGED scripts
  BY <1>1 DEF scripts
<1>2. ASSUME NEW S \in SUBSET Ids, Scripts!Insert(S)
      PROVE  ScriptsOK' /\ Scripts!LosesOnlyAsked
  BY <1>2 DEF Scripts!Insert, Scripts!Fresh
<1>3. ASSUME NEW i \in Ids, NEW text \in Texts, Scripts!Create(i, text)
      PROVE  ScriptsOK' /\ Scripts!LosesOnlyAsked
  BY <1>3 DEF Scripts!Create, Scripts!Told, Scripts!SaveSucceeds, Scripts!SaveFails
<1>4. ASSUME NEW i \in Ids, NEW text \in Texts, Scripts!Edit(i, text)
      PROVE  ScriptsOK' /\ Scripts!LosesOnlyAsked
  BY <1>4 DEF Scripts!Edit, Scripts!Told, Scripts!SaveSucceeds, Scripts!SaveFails
<1>5. ASSUME NEW i \in Ids, NEW text \in Texts, Scripts!CreateNothing(i, text)
      PROVE  ScriptsOK' /\ Scripts!LosesOnlyAsked
  BY <1>5 DEF Scripts!CreateNothing, Scripts!SaveSucceeds, Scripts!SaveFails
<1>6. ASSUME NEW i \in Ids, Scripts!Delete(i)
      PROVE  ScriptsOK' /\ Scripts!LosesOnlyAsked
  BY <1>6 DEF Scripts!Delete, Scripts!Told, Scripts!SaveSucceeds, Scripts!SaveFails
<1>7. CASE Scripts!SaveOther
  BY <1>7 DEF Scripts!SaveOther, Scripts!SaveSucceeds
<1>8. CASE Scripts!Relaunch
  BY <1>8 DEF Scripts!Relaunch
<1> QED
  BY <1>1, <1>2, <1>3, <1>4, <1>5, <1>6, <1>7, <1>8 DEF ScriptStep, Scripts!Next
-----------------------------------------------------------------------------
(***************************************************************************)
(* The navigation stack.                                                   *)
(***************************************************************************)
\* Forms and options are about a script.
Named(frame) == frame.kind \in {"form", "options"} => frame.of \in Ids

StackOK ==
    /\ stack \in Seq(Frames) /\ Len(stack) <= MaxDepth
    /\ \A k \in 1..Len(stack) : Named(stack[k])

\* A pushed screen keeps the stack in order (pushViewController:animated:).
LEMMA PushKeeps ==
    ASSUME StackOK, NEW frame \in Frames, Named(frame), Push(frame)
    PROVE  StackOK'
BY LinuxAssumption DEF LinuxAssumption, StackOK, Push

\* So does the back button.
LEMMA BelowKeeps ==
    ASSUME StackOK, stack # <<>>, stack' = Below
    PROVE  StackOK'
BY LinuxAssumption DEF LinuxAssumption, StackOK, Below

\* The screen in front is one of the stack.
LEMMA TopOK ==
    ASSUME StackOK, stack # <<>>
    PROVE  Top \in Frames /\ Named(Top)
BY DEF StackOK, Top

\* The frames the screens push.
LEMMA FrameOK ==
    ASSUME NEW kind \in Kinds
    PROVE  /\ Frame(kind) \in Frames
           /\ kind \notin {"form", "options"} => Named(Frame(kind))
           /\ \A i \in Ids : /\ [Frame(kind) EXCEPT !.of = i] \in Frames
                             /\ Named([Frame(kind) EXCEPT !.of = i])
                             /\ [Frame(kind) EXCEPT !.of = i, !.creating = TRUE] \in Frames
                             /\ Named([Frame(kind) EXCEPT !.of = i, !.creating = TRUE])
           /\ \A R \in SUBSET Ids : 
                 /\ [Frame(kind) EXCEPT !.rows = R] \in Frames
                 /\ kind \notin {"form", "options"} => Named([Frame(kind) EXCEPT !.rows = R])
BY DEF Frame, Frames, Named

\* A list that loads is pushed with rows that are scripts.
LEMMA LoadsKeeps ==
    ASSUME StackOK, NEW kind \in {"list", "modalList"}, Loads(kind)
    PROVE  StackOK'
<1>1. PICK rows \in {Scripts!Existing(context'), {}} :
         Push([Frame(kind) EXCEPT !.rows = rows])
  BY DEF Loads
<1>2. rows \in SUBSET Ids
  BY <1>1 DEF Scripts!Existing
<1>3. kind \in Kinds /\ kind \notin {"form", "options"}
  BY DEF Kinds
<1> QED
  BY <1>1, <1>2, <1>3, FrameOK, PushKeeps

\* Every step keeps the stack in order.
LEMMA StackKept ==
    ASSUME StackOK, [Next]_vars
    PROVE  StackOK'
<1>0. CASE UNCHANGED stack
  BY <1>0 DEF StackOK
<1>1. ASSUME NEW kind \in {"menu", "usage", "tool", "console", "history", "scripting", "result"},
             Push(Frame(kind))
      PROVE  StackOK'
  <2>1. kind \in Kinds /\ kind \notin {"form", "options"}
    BY DEF Kinds
  <2> QED
    BY <1>1, <2>1, FrameOK, PushKeeps
<1>2. ASSUME NEW i \in Ids, NewForm(i)
      PROVE  StackOK'
  BY <1>2, FrameOK, PushKeeps DEF NewForm, Kinds
<1>3. ASSUME NEW create \in BOOLEAN, AnswerEmpty(create)
      PROVE  StackOK'
  <2>1. Scripts!Fresh \subseteq Ids
    BY DEF Scripts!Fresh
  <2> QED
    BY <1>0, <1>2, <1>3, <2>1, LoadsKeeps DEF AnswerEmpty
<1>4. ASSUME NEW i \in Ids, TapScript(i)
      PROVE  StackOK'
  BY <1>4, FrameOK, PushKeeps DEF TapScript, Kinds
<1>5. CASE EditScript
  <2>1. Top.of \in Ids
    BY <1>5, TopOK DEF EditScript, InFront, Named
  <2> QED
    BY <1>5, <2>1, FrameOK, PushKeeps DEF EditScript, Kinds
<1>6. ASSUME NEW text \in Texts, SaveForm(text)
      PROVE  StackOK'
  BY <1>6, LoadsKeeps DEF SaveForm
<1>7. CASE RunScript
  BY <1>0, <1>1, <1>7, BelowKeeps DEF RunScript, InFront
<1>8. CASE OpenForm
  BY <1>2, <1>8 DEF OpenForm, Scripts!Fresh
<1>9. CASE Back
  <2>1. stack # <<>>
    BY <1>9 DEF Back, StackOK
  <2> QED
    BY <1>9, <2>1, BelowKeeps DEF Back
<1>10. CASE BackToOverview \/ Relaunch
  <2>1. stack' = <<>>
    BY <1>10 DEF BackToOverview, Relaunch
  <2>2. Len(stack') = 0 /\ stack' \in Seq(Frames)
    BY <2>1
  <2> QED
    BY <2>2, LinuxAssumption DEF StackOK, LinuxAssumption
<1>11. CASE OpenMenu \/ OpenUsage \/ OpenTool \/ OpenConsole \/ OpenHistory \/ OpenScripting
  BY <1>1, <1>11 DEF OpenMenu, OpenUsage, OpenTool, OpenConsole, OpenHistory, OpenScripting
<1>12. CASE OpenList \/ DeleteScript
  BY <1>12, LoadsKeeps DEF OpenList, DeleteScript
<1>13. CASE SessionStep \/ SaveOther \/ UNCHANGED vars
  BY <1>0, <1>13 DEF SessionStep, SessionOnly, SaveOther, vars
<1> QED
  BY <1>3, <1>4, <1>5, <1>6, <1>7, <1>8, <1>9, <1>10, <1>11, <1>12, <1>13 DEF Next

\* What the screens do to the scripts is always one operation on them or none.
LEMMA StepIsScriptStep ==
    ASSUME StackOK, [Next]_vars
    PROVE  ScriptStep
<1> USE DEF ScriptStep
<1>1. CASE OpenForm
  <2>1. PICK i \in Scripts!Fresh : Scripts!Insert({i})
    BY <1>1 DEF OpenForm
  <2>2. {i} \in SUBSET Ids
    BY DEF Scripts!Fresh
  <2> QED
    BY <2>1, <2>2 DEF Scripts!Next
<1>2. ASSUME NEW create \in BOOLEAN, AnswerEmpty(create)
      PROVE  ScriptStep
  <2>1. \E S \in SUBSET Ids : Scripts!Insert(S)
    <3>1. PICK i \in Scripts!Fresh :
             \/ Scripts!Insert({i})
             \/ \E j \in Scripts!Fresh \ {i} : Scripts!Insert({i, j})
      BY <1>2 DEF AnswerEmpty
    <3>2. \A j \in Scripts!Fresh : {i} \in SUBSET Ids /\ {i, j} \in SUBSET Ids
      BY DEF Scripts!Fresh
    <3> QED
      BY <3>1, <3>2
  <2> QED
    BY <2>1 DEF Scripts!Next
<1>3. ASSUME NEW text \in Texts, SaveForm(text)
      PROVE  ScriptStep
  <2>1. Top.of \in Ids
    BY <1>3, TopOK DEF SaveForm, InFront, Named
  <2> QED
    BY <1>3, <2>1 DEF SaveForm, Scripts!Next
<1>4. CASE DeleteScript
  <2>1. Top.of \in Ids
    BY <1>4, TopOK DEF DeleteScript, InFront, Named
  <2> QED
    BY <1>4, <2>1 DEF DeleteScript, Scripts!Next
<1>5. CASE SaveOther \/ Relaunch
  BY <1>5 DEF SaveOther, Relaunch, Scripts!Next
<1>6. CASE OpenMenu \/ OpenUsage \/ OpenTool \/ OpenConsole \/ OpenHistory \/ OpenScripting
  BY <1>6 DEF OpenMenu, OpenUsage, OpenTool, OpenConsole, OpenHistory, OpenScripting
<1>7. CASE SessionStep \/ OpenList \/ (\E i \in Ids : TapScript(i)) \/ EditScript \/ RunScript
  BY <1>7 DEF SessionStep, SessionOnly, OpenList, TapScript, EditScript, RunScript
<1>8. CASE Back \/ BackToOverview \/ UNCHANGED vars
  BY <1>8 DEF Back, BackToOverview, vars
<1> QED
  BY <1>1, <1>2, <1>3, <1>4, <1>5, <1>6, <1>7, <1>8 DEF Next
-----------------------------------------------------------------------------
(***************************************************************************)
(* The session.                                                            *)
(***************************************************************************)
SessionTyped ==
    /\ Session!SessionTypeOK
    /\ alert \in {"none", "prompt", "ask", "noConnection", "empty"}
    /\ main \in {"closed", "menu", "usage", "loop", "crashed"}

\* Until an alert is answered, the menu of a connected session holds the stored
\* password, authorized or not: the console may authorize it later.
MenuHoldsSaved == main = "menu" /\ connected /\ ~answered => temp = "saved"

\* The prompting loop has no password yet, so it cannot end.
LoopHoldsNone == main = "loop" => temp = "nil"

\* A tool was handed what the menu held, and goes with its menu.
ToolHoldsSaved ==
    /\ handed # "closed" /\ ~answered => handed = "saved"
    /\ main \in {"closed", "usage", "loop"} => handed = "closed"

AuthorizedConnected == authorized => connected

SessionOK ==
    /\ SessionTyped
    /\ MenuHoldsSaved /\ LoopHoldsNone /\ ToolHoldsSaved /\ AuthorizedConnected
    /\ Session!SudoCarriesSavedPassword
    /\ Session!SendsOnlyAuthorized

\* The session part of Init.
LEMMA SessionInit == ASSUME Session!Init PROVE SessionOK
<1>1. 0 % 2 = 0 /\ 0 \in 0..MaxHistory
  BY LinuxAssumption DEF LinuxAssumption
<1>2. /\ Session!NoCommand.by = "nobody" /\ Session!NoCommand.password = "unused"
  BY DEF Session!NoCommand
<1>3. SessionTyped
  BY <1>1 DEF Session!Init, SessionTyped, Session!SessionTypeOK, Session!Passwords
<1> QED
  BY <1>2, <1>3 DEF Session!Init, SessionOK, MenuHoldsSaved, LoopHoldsNone, ToolHoldsSaved,
     AuthorizedConnected, Session!SudoCarriesSavedPassword, Session!SendsOnlyAuthorized

\* A command record has its fields, and its type.
LEMMA CommandTyped ==
    ASSUME NEW by \in Session!Senders, NEW password \in Session!Passwords \cup {"unused"},
           NEW ok \in BOOLEAN, Session!Sends(by, password, ok)
    PROVE  /\ executed' \in Session!Commands
           /\ executed'.by = by /\ executed'.password = password
           /\ executed'.authorized = ok
BY DEF Session!Sends, Session!Commands

\* Every step of the session keeps its part of the invariant, one step per
\* handler (ManageServerLinuxViewController.m, LinuxConsoleViewController.m,
\* ViewSystemUsageViewController.m).
LEMMA SessionKept ==
    ASSUME SessionOK, Session!Next
    PROVE  SessionOK'
<1> USE LinuxAssumption DEF LinuxAssumption, SessionOK, SessionTyped, Session!SessionTypeOK,
        MenuHoldsSaved, LoopHoldsNone, ToolHoldsSaved, AuthorizedConnected,
        Session!SudoCarriesSavedPassword, Session!SendsOnlyAuthorized, Session!Passwords,
        Session!link
<1>0. /\ Session!NoCommand.by = "nobody" /\ Session!NoCommand.password = "unused"
  BY DEF Session!NoCommand
<1>1. CASE Session!Open
  BY <1>0, <1>1 DEF Session!Open, Session!Ready, Session!Kept
<1>2. CASE Session!PromptLoop
  BY <1>2 DEF Session!PromptLoop, Session!Authenticate
<1>3. ASSUME NEW enter \in BOOLEAN, Session!AnswerAlert(enter)
      PROVE  SessionOK'
  BY <1>3 DEF Session!AnswerAlert
<1>4. CASE Session!Ask
  BY <1>4 DEF Session!Ask
<1>5. CASE Session!Reboot
  BY <1>5, CommandTyped DEF Session!Reboot, Session!Ready, Session!Senders
<1>6. CASE Session!OpenTool
  BY <1>6 DEF Session!OpenTool, Session!Ready
<1>7. CASE Session!ToolExecutes
  BY <1>7, CommandTyped DEF Session!ToolExecutes, Session!Ready, Session!Senders
<1>8. CASE Session!CloseTool
  BY <1>8 DEF Session!CloseTool
<1>9. CASE Session!OpenConsole
  BY <1>9 DEF Session!OpenConsole
<1>10. CASE Session!ConsoleExecutes
  <2> USE <1>10 DEF Session!ConsoleExecutes, Session!Ready, Session!Authenticate
  <2>1. authorized' \in BOOLEAN /\ connected' = connected /\ saved' = saved
    OBVIOUS
  <2>2. history' \in 0..MaxHistory /\ history' % 2 = 0
    BY DEF Session!Records
  <2>3. CASE authorized'
    <3>1. /\ executed' \in Session!Commands
          /\ executed'.password = "unused" /\ executed'.authorized
      BY <2>1, <2>3, CommandTyped DEF Session!Senders
    <3>2. SessionTyped'
      BY <2>1, <2>2, <3>1
    <3>3. (MenuHoldsSaved /\ LoopHoldsNone /\ ToolHoldsSaved)'
      OBVIOUS
    <3>4. AuthorizedConnected'
      BY <2>1
    <3>5. (Session!SudoCarriesSavedPassword /\ Session!SendsOnlyAuthorized)'
      BY <3>1
    <3> QED
      BY <3>2, <3>3, <3>4, <3>5
  <2>4. CASE ~authorized'
    BY <2>1, <2>2, <2>4
  <2> QED
    BY <2>3, <2>4
<1>11. CASE Session!RunScript
  BY <1>11, CommandTyped DEF Session!RunScript, Session!Ready, Session!Senders
<1>12. CASE Session!OpenUsage
  BY <1>0, <1>12 DEF Session!OpenUsage, Session!Ready
<1>13. CASE Session!UsageExecutes
  BY <1>13, CommandTyped DEF Session!UsageExecutes, Session!Ready, Session!Senders
<1>14. CASE Session!Leave
  BY <1>0, <1>14 DEF Session!Leave, Session!Ready
<1>15. CASE Session!Drop
  <2>1. CASE connected' = FALSE /\ authorized' = FALSE /\ usage' = usage
    <3>1. SessionTyped'
      BY <1>15, <2>1 DEF Session!Drop
    <3>2. (MenuHoldsSaved /\ LoopHoldsNone /\ ToolHoldsSaved /\ AuthorizedConnected)'
      BY <1>15, <2>1 DEF Session!Drop
    <3>3. (Session!SudoCarriesSavedPassword /\ Session!SendsOnlyAuthorized)'
      BY <1>15 DEF Session!Drop
    <3> QED
      BY <3>1, <3>2, <3>3
  <2>2. CASE usage' = "lost" /\ connected' = connected /\ authorized' = authorized
    BY <1>15, <2>2 DEF Session!Drop
  <2> QED
    BY <1>15, <2>1, <2>2 DEF Session!Drop
<1>16. CASE Session!Relaunch
  <2>1. 0 % 2 = 0 /\ 0 \in 0..MaxHistory
    OBVIOUS
  <2> QED
    BY <1>0, <1>16, <2>1 DEF Session!Relaunch
<1> QED
  BY <1>1, <1>2, <1>3, <1>4, <1>5, <1>6, <1>7, <1>8, <1>9, <1>10, <1>11, <1>12, <1>13,
     <1>14, <1>15, <1>16 DEF Session!Next
-----------------------------------------------------------------------------
(***************************************************************************)
(* The composition.                                                        *)
(***************************************************************************)
\* The one thing the screens of the scripts do to the session: their question
\* about an empty list comes and goes.
AlertOnly ==
    /\ alert' \in {"none", "empty"}
    /\ UNCHANGED <<saved, connected, authorized, temp, answered, handed, usage, history,
                   executed, main>>

\* What the screens do to the session is a step of the session, a question of
\* the script list, or nothing.
LEMMA StepIsSessionStep ==
    ASSUME [Next]_vars
    PROVE  Session!Next \/ AlertOnly \/ UNCHANGED session
<1>1. CASE OpenMenu \/ OpenUsage \/ OpenTool \/ OpenConsole
  BY <1>1 DEF OpenMenu, OpenUsage, OpenTool, OpenConsole, Session!Next
<1>2. CASE SessionStep
  BY <1>2 DEF SessionStep, Session!Next
<1>3. CASE OpenHistory \/ OpenScripting \/ OpenForm \/ EditScript \/ (\E i \in Ids : TapScript(i))
  BY <1>3 DEF OpenHistory, OpenScripting, OpenForm, EditScript, TapScript
<1>4. ASSUME NEW kind \in {"list", "modalList"}, Loads(kind)
      PROVE  AlertOnly
  BY <1>4 DEF Loads, AlertOnly
<1>5. CASE OpenList \/ DeleteScript \/ (\E text \in Texts : SaveForm(text))
  BY <1>4, <1>5 DEF OpenList, DeleteScript, SaveForm
<1>6. ASSUME NEW create \in BOOLEAN, AnswerEmpty(create)
      PROVE  AlertOnly
  BY <1>4, <1>6 DEF AnswerEmpty, AlertOnly
<1>7. CASE RunScript
  BY <1>7 DEF RunScript, Session!Next
<1>8. CASE Back \/ BackToOverview
  BY <1>8 DEF Back, BackToOverview, Session!Next
<1>9. CASE SaveOther \/ UNCHANGED vars
  BY <1>9 DEF SaveOther, vars
<1>10. CASE Relaunch
  BY <1>10 DEF Relaunch, Session!Next
<1> QED
  BY <1>1, <1>2, <1>3, <1>5, <1>6, <1>7, <1>8, <1>9, <1>10 DEF Next

\* The question of the script list touches nothing the session depends on.
LEMMA AlertKeeps ==
    ASSUME SessionOK, AlertOnly \/ UNCHANGED session
    PROVE  SessionOK'
<1>1. /\ UNCHANGED <<saved, connected, authorized, temp, answered, handed, usage, history,
                     executed, main>>
      /\ alert' = alert \/ alert' \in {"none", "empty"}
  BY DEF AlertOnly, session
<1> QED
  BY <1>1 DEF SessionOK, SessionTyped, Session!SessionTypeOK, MenuHoldsSaved, LoopHoldsNone,
     ToolHoldsSaved, AuthorizedConnected, Session!SudoCarriesSavedPassword,
     Session!SendsOnlyAuthorized

\* The inductive invariant.
IInv == ScriptsOK /\ SessionOK /\ StackOK

\* It holds initially.
LEMMA InvariantInit == ASSUME Init PROVE IInv
<1>1. StackOK
  <2>1. Len(stack) = 0 /\ stack \in Seq(Frames)
    BY DEF Init
  <2> QED
    BY <2>1, LinuxAssumption DEF StackOK, LinuxAssumption
<1> QED
  BY <1>1, ScriptsInit, SessionInit DEF IInv, Init

\* Every step keeps it, and no step loses a script whose deletion was not asked.
LEMMA InvariantStep ==
    ASSUME IInv, [Next]_vars
    PROVE  IInv' /\ Scripts!LosesOnlyAsked
<1>1. ScriptsOK' /\ Scripts!LosesOnlyAsked
  BY StepIsScriptStep, ScriptsKept DEF IInv
<1>2. SessionOK'
  BY StepIsSessionStep, SessionKept, AlertKeeps DEF IInv
<1>3. StackOK'
  BY StackKept DEF IInv
<1> QED
  BY <1>1, <1>2, <1>3 DEF IInv

\* IInv is an invariant of the screens of a Linux server.
THEOREM Invariant == Spec => []IInv
<1>1. Init => IInv
  BY InvariantInit
<1>2. IInv /\ [Next]_vars => IInv'
  BY InvariantStep
<1> QED
  BY <1>1, <1>2, PTL DEF Spec

\* Session, scripts and screens keep their types; the console's history holds
\* commands and responses by turns (LinuxConsoleViewController.m).
THEOREM TypeCorrect == Spec => []TypeOK
<1>1. IInv => TypeOK
  BY DEF IInv, ScriptsOK, SessionOK, SessionTyped, StackOK, TypeOK
<1> QED
  BY <1>1, Invariant, PTL

\* Until an alert of the menu is answered, whatever pipes a password into sudo
\* pipes the stored one (ManageServerLinuxViewController.m).
THEOREM SavedPasswordSent == Spec => []SudoCarriesSavedPassword
<1>1. IInv => SudoCarriesSavedPassword
  BY DEF IInv, SessionOK, SudoCarriesSavedPassword
<1> QED
  BY <1>1, Invariant, PTL

\* Only tools send commands over a session that is not authorized at that moment
\* (ScriptOptionsViewController.m, LinuxConsoleViewController.m).
THEOREM AuthorizedSent == Spec => []SendsOnlyAuthorized
<1>1. IInv => SendsOnlyAuthorized
  BY DEF IInv, SessionOK, SendsOnlyAuthorized
<1> QED
  BY <1>1, Invariant, PTL

\* A script reported as created stays in the store through failed saves, restarts
\* and other screens' saves: as typed if its form held it, and otherwise as it was
\* saved before (ScriptCreateEditViewController.m).
THEOREM CreationsDurable == Spec => []CreatedScriptsDurable
<1>1. IInv => CreatedScriptsDurable
  BY DEF IInv, ScriptsOK, PromisesHeld, CreatedScriptsDurable, Scripts!CreatedScriptsDurable
<1> QED
  BY <1>1, Invariant, PTL

\* The store loses a script only after Delete Script was chosen for it, whoever
\* writes the pending deletion (ScriptOptionsViewController.m).
THEOREM ScriptDeletionsAsked == Spec => OnlyAskedScriptDeletions
<1>1. IInv /\ [Next]_vars => [Scripts!LosesOnlyAsked]_vars
  BY InvariantStep
<1> QED
  BY <1>1, Invariant, PTL DEF Spec, OnlyAskedScriptDeletions

\* The screens use the scripts only through the operations of ScriptStore: their
\* behaviour implements its specification.
THEOREM ImplementsScriptStore == Spec => Scripts!Spec
<1>1. Init => Scripts!Init
  BY DEF Init
<1>2. IInv /\ [Next]_vars => [Scripts!Next]_(Scripts!vars)
  <2> SUFFICES ASSUME IInv, [Next]_vars PROVE [Scripts!Next]_(Scripts!vars)
    OBVIOUS
  <2>1. Scripts!Next \/ UNCHANGED scripts
    BY StepIsScriptStep DEF IInv, ScriptStep
  <2> QED
    BY <2>1 DEF scripts, Scripts!vars
<1> QED
  BY <1>1, <1>2, Invariant, PTL DEF Spec, Scripts!Spec
=============================================================================
