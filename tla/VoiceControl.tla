---------------------------- MODULE VoiceControl ----------------------------
(***************************************************************************)
(* The voice tab (VoiceListenerViewController.m): a recognizer turns       *)
(* speech into text, and the text selects a server, asks for its status,   *)
(* is kept for review or is executed over SSH with sudo.                   *)
(*                                                                         *)
(* An utterance is abstracted to what the handler tests of it: whether it  *)
(* starts with "use", whether it contains "check" and "status", and which  *)
(* server names occur in it.  Each branch compares names in its own way:   *)
(* trimmed ("use"), with every space removed (the status request), or as   *)
(* they are, after "switch" became a dash (commands).                      *)
(***************************************************************************)
EXTENDS Naturals, Sequences

CONSTANTS Stored,   \* the servers getAllServers: returns, in order
          MySQL,    \* those whose operating system is "MySQL"
          Nil       \* no server

Servers == {Stored[k] : k \in 1..Len(Stored)}

ASSUME StoredAssumption ==
    /\ Stored \in Seq(Servers)
    /\ \A j, k \in 1..Len(Stored) : Stored[j] = Stored[k] => j = k
    /\ MySQL \subseteq Servers
    /\ Nil \notin Servers

Utterances == [use : BOOLEAN, check : BOOLEAN, trimmed : SUBSET Servers,
               joined : SUBSET Servers, named : SUBSET Servers]

VARIABLES
    setup,             \* progress of the background block of viewDidLoad
    voiceHud,          \* the overlay takes every touch while it is up
    servers,           \* the servers loaded once, when the tab was first shown
    isServerSelected,
    selectedServer,
    transactionState,  \* TS_IDLE, TS_INITIAL, TS_RECORDING, TS_PROCESSING
    voiceSearch,       \* a recognizer object is held
    recognizer,        \* what the recognizer itself is doing
    review,            \* reviewCommandSwitch
    editable,          \* commandTxt and executeCommandBtn are enabled
    sent               \* what the last handler asked of which servers

setupVars == <<setup, voiceHud, servers>>
selectVars == <<isServerSelected, selectedServer>>
reviewVars == <<review, editable>>
recVars == <<transactionState, voiceSearch, recognizer>>
voiceVars == <<setup, voiceHud, servers, isServerSelected, selectedServer,
               transactionState, voiceSearch, recognizer, review, editable, sent>>

NothingSent == [by |-> "none", to |-> {}]

VoiceTypeOK ==
    /\ setup \in {"launch", "reset", "load", "notify", "done"}
    /\ voiceHud \in BOOLEAN
    /\ servers \in {<<>>, Stored}
    /\ isServerSelected \in BOOLEAN
    /\ selectedServer \in Servers \cup {Nil}
    /\ transactionState \in {"idle", "initial", "recording", "processing"}
    /\ voiceSearch \in BOOLEAN
    /\ recognizer \in {"none", "started", "recording", "recorded"}
    /\ review \in BOOLEAN
    /\ editable \in BOOLEAN
    /\ sent \in [by : {"none", "check", "spoken", "review"}, to : SUBSET Servers]

VoiceInit ==
    /\ setup = "launch"
    /\ voiceHud = FALSE
    /\ servers = <<>>
    /\ isServerSelected = FALSE
    /\ selectedServer = Nil
    /\ transactionState = "idle"
    /\ voiceSearch = FALSE
    /\ recognizer = "none"
    /\ review = TRUE              \* as the storyboard has them
    /\ editable = TRUE
    /\ sent = NothingSent
-----------------------------------------------------------------------------
(***************************************************************************)
(* viewDidLoad's background block.                                         *)
(***************************************************************************)
\* Mutant: the servers are loaded before the state is reset.
ShowHudLoadsFirst ==
    /\ setup = "launch"
    /\ setup' = "reset" /\ voiceHud' = TRUE /\ servers' = Stored
    /\ UNCHANGED <<selectVars, recVars, reviewVars, sent>>

ShowHud ==
    /\ setup = "launch"
    /\ setup' = "reset" /\ voiceHud' = TRUE
    /\ UNCHANGED <<servers, selectVars, recVars, reviewVars, sent>>

ResetState ==
    /\ setup = "reset"
    /\ setup' = "load"
    /\ review' = FALSE /\ editable' = FALSE
    /\ isServerSelected' = FALSE
    /\ UNCHANGED <<voiceHud, servers, selectedServer, recVars, sent>>

LoadServers ==
    /\ setup = "load"
    /\ setup' = "notify"
    /\ servers' = Stored
    /\ UNCHANGED <<voiceHud, selectVars, recVars, reviewVars, sent>>

HideHud ==
    /\ setup = "notify"
    /\ setup' = "done" /\ voiceHud' = FALSE
    /\ UNCHANGED <<servers, selectVars, recVars, reviewVars, sent>>

SetupStep == ShowHud \/ ResetState \/ LoadServers \/ HideHud
-----------------------------------------------------------------------------
(***************************************************************************)
(* The buttons.                                                            *)
(***************************************************************************)
\* onStartListeningClick: in TS_RECORDING the tap only asks the recognizer to
\* stop, which DidFinishRecording may do at any time; in the other states it
\* does nothing.
StartListening ==
    /\ ~voiceHud
    /\ transactionState = "idle"
    /\ transactionState' = "initial"
    /\ voiceSearch' = TRUE /\ recognizer' = "started"
    /\ UNCHANGED <<setupVars, selectVars, reviewVars, sent>>

ToggleReview ==
    /\ ~voiceHud
    /\ review' = ~review
    /\ UNCHANGED <<setupVars, selectVars, recVars, editable, sent>>

\* Mutant: the selection is not tested.
ExecuteReviewedAnyway ==
    /\ ~voiceHud /\ editable
    /\ editable' = FALSE
    /\ sent' = [by |-> "review", to |-> {selectedServer}]
    /\ UNCHANGED <<setupVars, selectVars, recVars, review>>

\* onExecuteCommandClicked: the reviewed command goes to the selected server.
ExecuteReviewed ==
    /\ ~voiceHud /\ editable
    /\ editable' = FALSE
    /\ sent' = IF isServerSelected THEN [by |-> "review", to |-> {selectedServer}]
                                   ELSE NothingSent
    /\ UNCHANGED <<setupVars, selectVars, recVars, review>>
-----------------------------------------------------------------------------
(***************************************************************************)
(* The recognizer's callbacks.  It begins and ends a recording once, then  *)
(* delivers results; it may report an error at any time; the results or    *)
(* the error are its last call.                                            *)
(***************************************************************************)
DidBeginRecording ==
    /\ recognizer = "started"
    /\ recognizer' = "recording"
    /\ transactionState' = "recording"
    /\ UNCHANGED <<setupVars, selectVars, voiceSearch, reviewVars, sent>>

\* Mutant: the recognizer is dropped before its results arrive.
DidFinishRecordingDrops ==
    /\ recognizer = "recording"
    /\ recognizer' = "recorded"
    /\ transactionState' = "processing"
    /\ voiceSearch' = FALSE
    /\ UNCHANGED <<setupVars, selectVars, reviewVars, sent>>

\* Mutant: the end of a recording starts the next one.
DidFinishRecordingRestarts ==
    /\ recognizer = "recording"
    /\ recognizer' = "started"
    /\ transactionState' = "initial"
    /\ UNCHANGED <<setupVars, selectVars, voiceSearch, reviewVars, sent>>

DidFinishRecording ==
    /\ recognizer = "recording"
    /\ recognizer' = "recorded"
    /\ transactionState' = "processing"
    /\ UNCHANGED <<setupVars, selectVars, voiceSearch, reviewVars, sent>>

DidFinishWithError ==
    /\ recognizer # "none"
    /\ recognizer' = "none"
    /\ transactionState' = "idle"
    /\ voiceSearch' = FALSE
    /\ UNCHANGED <<setupVars, selectVars, reviewVars, sent>>

\* Every path of didFinishWithResults: starts like this.
ResultsArrive ==
    /\ recognizer = "recorded"
    /\ recognizer' = "none"
    /\ transactionState' = "idle"
    /\ UNCHANGED setupVars

\* The paths that run to the end of the handler drop the recognizer, the early
\* returns keep it.
RunsToEnd == voiceSearch' = FALSE
Returns == UNCHANGED voiceSearch

EmptyResults ==
    /\ ResultsArrive
    /\ RunsToEnd
    /\ UNCHANGED <<selectVars, reviewVars, sent>>

\* The positions of the servers in S.
Found(S) == {k \in 1..Len(servers) : servers[k] \in S}

\* The first loaded server in S.
First(S) == servers[CHOOSE k \in Found(S) : \A j \in Found(S) : k <= j]

\* "use ...": the first server named is selected, a MySQL one too (with a
\* spoken warning); naming none keeps the server selected before, silently.
UseServer(u) ==
    /\ ResultsArrive
    /\ u.use
    /\ Found(u.trimmed) # {} \/ isServerSelected
    /\ Returns
    /\ IF Found(u.trimmed) # {}
       THEN selectedServer' = First(u.trimmed) /\ isServerSelected' = TRUE
       ELSE UNCHANGED selectVars
    /\ UNCHANGED <<reviewVars, sent>>

\* The text is not consumed by the "use" branch.
PastUse(u) == u.use => Found(u.trimmed) = {} /\ ~isServerSelected

\* The servers a status request is about.
CheckTarget(u) == IF isServerSelected THEN {selectedServer}
                  ELSE IF Found(u.joined) # {} THEN {First(u.joined)} ELSE {}

CheckStatus(u) ==
    /\ ResultsArrive
    /\ PastUse(u) /\ u.check
    /\ CheckTarget(u) # {}
    /\ Returns
    /\ sent' = IF CheckTarget(u) \subseteq MySQL THEN NothingSent
               ELSE [by |-> "check", to |-> CheckTarget(u)]
    /\ UNCHANGED <<selectVars, reviewVars>>

\* The text is neither a selection nor a status request that found its server.
IsCommand(u) == PastUse(u) /\ ~(u.check /\ CheckTarget(u) # {})

KeepForReview(u) ==
    /\ ResultsArrive
    /\ IsCommand(u) /\ review
    /\ editable' = TRUE
    /\ Returns
    /\ UNCHANGED <<selectVars, review, sent>>

\* Mutant: the operating system of the selected server is not tested.
ExecuteOnAnySelected(u) ==
    /\ ResultsArrive
    /\ IsCommand(u) /\ ~review /\ isServerSelected
    /\ RunsToEnd /\ sent' = [by |-> "spoken", to |-> {selectedServer}]
    /\ UNCHANGED <<selectVars, reviewVars>>

ExecuteOnSelected(u) ==
    /\ ResultsArrive
    /\ IsCommand(u) /\ ~review /\ isServerSelected
    /\ IF selectedServer \in MySQL
       THEN Returns /\ sent' = NothingSent
       ELSE RunsToEnd /\ sent' = [by |-> "spoken", to |-> {selectedServer}]
    /\ UNCHANGED <<selectVars, reviewVars>>

\* The positions the execution loop reaches: up to the first MySQL server named.
Reached(S) == {k \in Found(S) : \A j \in Found(S \cap MySQL) : k < j}

ExecuteOnNamed(u) ==
    /\ ResultsArrive
    /\ IsCommand(u) /\ ~review /\ ~isServerSelected
    /\ sent' = [by |-> "spoken", to |-> {servers[k] : k \in Reached(u.named)}]
    /\ IF Found(u.named \cap MySQL) # {} THEN Returns ELSE RunsToEnd
    /\ UNCHANGED <<selectVars, reviewVars>>

DidFinishWithResults ==
    \/ EmptyResults
    \/ \E u \in Utterances :
         \/ UseServer(u)
         \/ CheckStatus(u)
         \/ KeepForReview(u)
         \/ ExecuteOnSelected(u)
         \/ ExecuteOnNamed(u)

Callback == DidBeginRecording \/ DidFinishRecording \/ DidFinishWithError
            \/ DidFinishWithResults

VoiceNext == SetupStep \/ StartListening \/ ToggleReview \/ ExecuteReviewed \/ Callback

VoiceSpec == VoiceInit /\ [][VoiceNext]_voiceVars

\* The queue runs the block to its end; end-of-speech detection and the
\* service's own timeouts make the recognizer call back.
FairVoiceSpec == VoiceSpec /\ WF_voiceVars(SetupStep) /\ WF_voiceVars(Callback)
-----------------------------------------------------------------------------
(***************************************************************************)
(* Properties.                                                             *)
(***************************************************************************)
\* A spoken command or status request is never sent to a MySQL server, although
\* "use" selects one (line 291) and a loop may meet one half way (line 371).
SpokenSkipsMySQL == sent.by \in {"check", "spoken"} => sent.to \cap MySQL = {}

\* A recognizer at work is the one the controller holds: dropping it
\* (lines 409, 432) before its last callback would leave the button dead.
LiveRecognizerHeld ==
    /\ recognizer # "none" => voiceSearch
    /\ recognizer = "none" <=> transactionState = "idle"

\* A selected server stays selected until another one replaces it: the reset in
\* the background block (line 63) never discards a selection made meanwhile.
SelectionNeverLost == [][isServerSelected => isServerSelected']_voiceVars

\* After every press of the button the screen becomes ready for the next one.
ListeningEnds == transactionState # "idle" ~> transactionState = "idle"
=============================================================================
