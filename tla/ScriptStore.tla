----------------------------- MODULE ScriptStore -----------------------------
(***************************************************************************)
(* The scripts in Core Data (ScriptDAO.m) and what the script form         *)
(* (ScriptCreateEditViewController.m) and the script options               *)
(* (ScriptOptionsViewController.m) do with them.  All share the context of *)
(* the app, whose save writes every pending change or none.  A creation    *)
(* reports whether its save succeeded; an edit and a deletion save with    *)
(* save:nil and report success always.                                     *)
(***************************************************************************)
CONSTANTS Ids,     \* Script objects
          Texts,   \* name and contents as the user types them
          Blank,   \* those of an object just inserted
          Gone     \* no object

VARIABLES
    context,    \* the scripts as the context sees them, pending changes included
    stored,     \* the scripts in the store
    promised,   \* the text of the last "Script updated!" of a creation, or Gone
    unheld,     \* the scripts of which a form said so without holding them
    asked       \* the scripts whose deletion was asked for

vars == <<context, stored, promised, unheld, asked>>

StoreTypeOK ==
    /\ context \in [Ids -> Texts \cup {Blank, Gone}]
    /\ stored \in [Ids -> Texts \cup {Blank, Gone}]
    /\ promised \in [Ids -> Texts \cup {Gone}]
    /\ unheld \subseteq Ids /\ asked \subseteq Ids

Init ==
    /\ context = [i \in Ids |-> Gone] /\ stored = context
    /\ promised = [i \in Ids |-> Gone]
    /\ unheld = {} /\ asked = {}
-----------------------------------------------------------------------------
\* save: with the changes the action makes; it succeeds, or fails and leaves
\* them pending.
SaveSucceeds == stored' = context'
SaveFails == UNCHANGED stored

\* fetchAllScripts: finds unsaved objects too.
Existing(rows) == {i \in Ids : rows[i] # Gone}

Fresh == {i \in Ids : context[i] = Gone /\ stored[i] = Gone /\ i \notin asked}

\* initWithEntity:insertIntoManagedObjectContext:, once for each i of S.
Insert(S) ==
    /\ S \subseteq Fresh
    /\ context' = [i \in Ids |-> IF i \in S THEN Blank ELSE context[i]]
    /\ UNCHANGED <<stored, promised, unheld, asked>>

\* What the user was told of script i: text, or nothing that still stands.
Told(i, text) == promised' = [promised EXCEPT ![i] = text] /\ unheld' = unheld \ {i}

\* Mutant: the creation is saved the way an edit is.
CreateUnchecked(i, text) ==
    /\ context[i] # Gone
    /\ context' = [context EXCEPT ![i] = text]
    /\ SaveSucceeds \/ SaveFails
    /\ Told(i, text)
    /\ UNCHANGED asked

\* Save in a form that creates: "Script updated!" or "Could not save script."
Create(i, text) ==
    /\ context[i] # Gone
    /\ context' = [context EXCEPT ![i] = text]
    /\ \/ SaveSucceeds /\ Told(i, text)
       \/ SaveFails /\ Told(i, Gone)
    /\ UNCHANGED asked

\* The form holds its script weakly, and so does a context in which it is saved:
\* after a save of its own or of another tab the form may find nil.  It then sets
\* nothing, writes whatever else is pending and reports success all the same.
CreateNothing(i, text) ==
    /\ context[i] # Gone /\ context[i] = stored[i]
    /\ UNCHANGED <<context, asked>>
    /\ \/ /\ SaveSucceeds
          /\ promised' = [promised EXCEPT ![i] = text]
          /\ unheld' = unheld \cup {i}
       \/ SaveFails /\ UNCHANGED <<promised, unheld>>

\* Mutant: an edit replaces the object by another one.
EditReplaces(i, text) ==
    /\ context[i] # Gone
    /\ \E j \in Fresh : context' = [context EXCEPT ![i] = Gone, ![j] = text]
    /\ SaveSucceeds \/ SaveFails
    /\ Told(i, Gone)
    /\ UNCHANGED asked

\* Save in a form that edits.
Edit(i, text) ==
    /\ context[i] # Gone
    /\ context' = [context EXCEPT ![i] = text]
    /\ SaveSucceeds \/ SaveFails
    /\ Told(i, Gone)
    /\ UNCHANGED asked

\* Delete Script.
Delete(i) ==
    /\ context[i] # Gone
    /\ context' = [context EXCEPT ![i] = Gone]
    /\ SaveSucceeds \/ SaveFails
    /\ Told(i, Gone)
    /\ asked' = asked \cup {i}

\* Another screen (a server form, a deletion, the seeding) saves the context.
SaveOther ==
    /\ UNCHANGED <<context, promised, unheld, asked>>
    /\ SaveSucceeds

\* The app ends; the next launch reads the store.
Relaunch ==
    /\ context' = stored
    /\ UNCHANGED <<stored, promised, unheld, asked>>

Next ==
    \/ \E S \in SUBSET Ids : Insert(S)
    \/ \E i \in Ids, text \in Texts : Create(i, text) \/ CreateNothing(i, text) \/ Edit(i, text)
    \/ \E i \in Ids : Delete(i)
    \/ SaveOther \/ Relaunch

Spec == Init /\ [][Next]_vars
-----------------------------------------------------------------------------
(***************************************************************************)
(* Properties.                                                             *)
(***************************************************************************)
\* A script whose creation was reported is in the store, through failed saves,
\* changes of other scripts and restarts, until it is edited, deleted or saved
\* again: with the text that was typed if the form still held it, and otherwise
\* with whatever some screen saved it with before, which may be nothing.
CreatedScriptsDurable ==
    \A i \in Ids : promised[i] # Gone =>
        stored[i] = promised[i] \/ (i \in unheld /\ stored[i] # Gone)

\* The store loses a script only after its deletion was asked for, although a
\* deletion whose save failed is written by the save of something else.
LosesOnlyAsked == \A i \in Ids : stored[i] # Gone /\ stored'[i] = Gone => i \in asked'
=============================================================================
