--------------------------- MODULE ServiceManager ---------------------------
(***************************************************************************)
(* The "Manage Services" screen (ManageProcessesLinuxViewController.m): a  *)
(* background block lists /etc/init.d, asks the status of every service    *)
(* over SSH and prunes the ones without a status, while the main thread    *)
(* lets the user search the table, tap a row and stop, restart or start    *)
(* the service of that row.  Both threads share the services array.        *)
(*                                                                         *)
(* Rows and tags count from 1 here and from 0 in the code.  A LinuxService *)
(* object is identified by its name: one object is made per listed name.   *)
(***************************************************************************)
EXTENDS Integers, Sequences, FiniteSets, SequencesExt

CONSTANTS InitD,    \* the names `ls /etc/init.d/` lists, in order
          Nil       \* the nil status, name or verb

Names == {InitD[k] : k \in 1..Len(InitD)}

ASSUME InitDAssumption ==
    /\ InitD \in Seq(Names)
    /\ \A j, k \in 1..Len(InitD) : InitD[j] = InitD[k] => j = k

Texts == {"reported", "unrecognized", ""}

\* What `service X status` prints, tagged with the service that was asked.
Responses == [of : Names, text : Texts]

ASSUME NilAssumption == Nil \notin Names /\ Nil \notin Responses

Verbs == {"stop", "restart", "start"}

VARIABLES
    authorized,       \* [session isAuthorized]
    loader,           \* where the background block is
    i,                \* the index of its two loops
    services,         \* the array both threads use
    status,           \* serviceStatus of each LinuxService object
    isFiltered,
    filteredServices, \* the array the last search produced
    laidOut,          \* the table has been laid out for the first time
    rows,             \* the row count the table read when it last reloaded
    hud,              \* the progress overlay
    main,             \* what the main thread is doing
    sel               \* the row, alert and handler locals of the current tap

loadVars == <<loader, i, hud>>
listVars == <<services, status, isFiltered, filteredServices>>
vars == <<authorized, loader, i, services, status, isFiltered,
          filteredServices, laidOut, rows, hud, main, sel>>

NoSelection == [tag |-> 1, title |-> Nil, settled |-> FALSE,
                verb |-> Nil, tmp |-> Nil, sent |-> Nil]

TypeOK ==
    /\ authorized \in BOOLEAN
    /\ loader \in {"start", "list", "append", "status", "hide", "prune", "notify", "done"}
    /\ i \in Nat \ {0}
    /\ services \in Seq(Names)
    /\ status \in [Names -> Responses \cup {Nil}]
    /\ isFiltered \in BOOLEAN
    /\ filteredServices \in Seq(Names)
    /\ laidOut \in BOOLEAN
    /\ rows \in Nat
    /\ hud \in {"off", "on", "fading"}
    /\ main \in {"idle", "alert", "command", "query", "crashed"}
    /\ sel \in [tag : Nat \ {0}, title : Names \cup {Nil}, settled : BOOLEAN,
                verb : Verbs \cup {Nil}, tmp : Names \cup {Nil}, sent : Names \cup {Nil}]

Init ==
    /\ authorized \in BOOLEAN
    /\ loader = "start"
    /\ i = 1
    /\ services = <<>>
    /\ status = [n \in Names |-> Nil]
    /\ isFiltered = FALSE
    /\ filteredServices = <<>>
    /\ laidOut = FALSE
    /\ rows = 0
    /\ hud = "off"
    /\ main = "idle"
    /\ sel = NoSelection

-----------------------------------------------------------------------------
\* The array the table view and the alert handler read.
CurrentList == IF isFiltered THEN filteredServices ELSE services

\* [tableView reloadData]: the table asks numberOfRowsInSection again.
Reload == rows' = Len(CurrentList)'

\* objectAtIndex: outside the array raises, and the app ends.
Crash == main' = "crashed"

\* The alert handler returns; its locals are gone.
Done == main' = "idle" /\ sel' = NoSelection

\* [hud hide:YES]: a shown overlay fades out, one that fades is removed at once.
HideHud == hud' = IF hud = "on" THEN "fading" ELSE "off"

-----------------------------------------------------------------------------
(***************************************************************************)
(* The background block.                                                   *)
(***************************************************************************)
LoadBegin ==
    /\ loader = "start"
    /\ IF authorized
       THEN hud' = "on" /\ loader' = "list"
       ELSE loader' = "notify" /\ UNCHANGED hud
    /\ UNCHANGED <<authorized, i, listVars, laidOut, rows, main, sel>>

ListFails ==
    /\ loader = "list"
    /\ HideHud
    /\ loader' = "notify"
    /\ UNCHANGED <<authorized, i, listVars, laidOut, rows, main, sel>>

ListSucceeds ==
    /\ loader = "list"
    /\ i' = 1
    /\ loader' = "append"
    /\ UNCHANGED <<authorized, listVars, laidOut, rows, hud, main, sel>>

\* The head of the loop: the object is visible to the main thread before its
\* status is known.
AppendService ==
    /\ loader = "append"
    /\ IF i <= Len(InitD)
       THEN /\ services' = Append(services, InitD[i])
            /\ loader' = "status"
       ELSE /\ loader' = "hide"
            /\ UNCHANGED services
    /\ UNCHANGED <<authorized, i, status, isFiltered, filteredServices,
                   laidOut, rows, hud, main, sel>>

\* An unusable answer leaves the status nil.  The status of the i-th object
\* is set, whatever object that is by now.
StatusAnswer ==
    /\ loader = "status"
    /\ \/ UNCHANGED <<status, main>>
       \/ IF i <= Len(services)
          THEN /\ status' = [status EXCEPT ![services[i]] = [of |-> InitD[i], text |-> "reported"]]
               /\ UNCHANGED main
          ELSE Crash /\ UNCHANGED status
    /\ i' = i + 1
    /\ loader' = "append"
    /\ UNCHANGED <<authorized, services, isFiltered, filteredServices,
                   laidOut, rows, hud, sel>>

\* Mutant: the pruning loop counts from 0.
HideAfterLoadFromZero ==
    /\ loader = "hide"
    /\ HideHud
    /\ i' = 0
    /\ loader' = "prune"
    /\ UNCHANGED <<authorized, listVars, laidOut, rows, main, sel>>

HideAfterLoad ==
    /\ loader = "hide"
    /\ HideHud
    /\ i' = 1
    /\ loader' = "prune"
    /\ UNCHANGED <<authorized, listVars, laidOut, rows, main, sel>>

\* The status tests of the pruning loop.
Unusable(n) == status[n] = Nil \/ status[n].text \in {"unrecognized", ""}

\* Mutant: the index advances only past a removed service.
PruneStepStuck ==
    /\ loader = "prune"
    /\ IF i <= Len(services)
       THEN /\ services' = IF Unusable(services[i]) THEN RemoveAt(services, i) ELSE services
            /\ i' = IF Unusable(services[i]) THEN i + 1 ELSE i
            /\ UNCHANGED loader
       ELSE /\ loader' = "notify"
            /\ UNCHANGED <<services, i>>
    /\ UNCHANGED <<authorized, status, isFiltered, filteredServices,
                   laidOut, rows, hud, main, sel>>

\* One round of the pruning loop; i advances after a removal too.
PruneStep ==
    /\ loader = "prune"
    /\ IF i <= Len(services)
       THEN /\ services' = IF Unusable(services[i]) THEN RemoveAt(services, i) ELSE services
            /\ i' = i + 1
            /\ UNCHANGED loader
       ELSE /\ loader' = "notify"
            /\ UNCHANGED <<services, i>>
    /\ UNCHANGED <<authorized, status, isFiltered, filteredServices,
                   laidOut, rows, hud, main, sel>>

\* Mutant: the table is not reloaded at the end.
NotifyWithoutReload ==
    /\ loader = "notify"
    /\ HideHud
    /\ loader' = "done"
    /\ UNCHANGED <<authorized, i, listVars, laidOut, rows, main, sel>>

\* dispatch_group_notify.
Notify ==
    /\ loader = "notify"
    /\ HideHud
    /\ loader' = "done"
    /\ UNCHANGED <<authorized, i, listVars, laidOut, main, sel>>
    /\ Reload

LoaderStep == LoadBegin \/ ListFails \/ ListSucceeds \/ AppendService
              \/ StatusAnswer \/ HideAfterLoad \/ PruneStep \/ Notify

\* The end of the fade-out animation, on the main thread.
HudFaded ==
    /\ hud = "fading"
    /\ hud' = "off"
    /\ UNCHANGED <<authorized, loader, i, listVars, laidOut, rows, main, sel>>
-----------------------------------------------------------------------------
(***************************************************************************)
(* The main thread.                                                        *)
(***************************************************************************)
\* The table is laid out for the first time while the loader may be at work.
FirstLayout ==
    /\ main = "idle" /\ ~laidOut
    /\ laidOut' = TRUE
    /\ UNCHANGED <<authorized, loadVars, listVars, main, sel>>
    /\ Reload

\* searchBar:textDidChange: with an empty text.
SearchCleared ==
    /\ main = "idle" /\ laidOut
    /\ isFiltered' = FALSE
    /\ UNCHANGED <<authorized, loadVars, services, status, filteredServices, laidOut, main, sel>>
    /\ Reload

\* searchBar:textDidChange: with a text that the names or states of M match.
\* p lists the positions of the matching services in increasing order.
SearchFor(M) ==
    /\ main = "idle" /\ laidOut
    /\ LET keep == {k \in 1..Len(services) : services[k] \in M}
       IN \E p \in [1..Cardinality(keep) -> keep] :
             /\ \A j, k \in 1..Cardinality(keep) : j < k => p[j] < p[k]
             /\ filteredServices' = [k \in 1..Cardinality(keep) |-> services[p[k]]]
    /\ isFiltered' = TRUE
    /\ UNCHANGED <<authorized, loadVars, services, status, laidOut, main, sel>>
    /\ Reload

\* cellForRowAtIndexPath: reads the array for a row the table believes in.
DrawRow(r) ==
    /\ main = "idle" /\ laidOut /\ authorized
    /\ r > Len(CurrentList)
    /\ Crash
    /\ UNCHANGED <<authorized, loadVars, listVars, laidOut, rows, sel>>

\* didSelectRowAtIndexPath: the overlay takes the touches while it is up.
Tap(r) ==
    /\ main = "idle" /\ laidOut /\ hud = "off"
    /\ IF r <= Len(CurrentList)
       THEN /\ main' = "alert"
            /\ sel' = [NoSelection EXCEPT !.tag = r, !.title = CurrentList[r],
                                          !.settled = (loader = "done")]
       ELSE Crash /\ UNCHANGED sel
    /\ UNCHANGED <<authorized, loadVars, listVars, laidOut, rows>>

\* alertView:clickedButtonAtIndex: 0 reads the array and does nothing.
Cancel ==
    /\ main = "alert"
    /\ IF sel.tag <= Len(CurrentList) THEN Done ELSE Crash /\ UNCHANGED sel
    /\ UNCHANGED <<authorized, loadVars, listVars, laidOut, rows>>

\* Mutant: every button reads the unfiltered array.
CommandListUnfiltered(verb) == services

\* The service a button sends its command for: restart reads the unfiltered array.
CommandList(verb) == IF verb = "restart" THEN services ELSE CurrentList

\* Buttons 1 to 3: the array is read again, by tag.
Choose(verb) ==
    /\ main = "alert"
    /\ IF sel.tag <= Len(CurrentList) /\ sel.tag <= Len(CommandList(verb))
       THEN /\ main' = "command"
            /\ sel' = [sel EXCEPT !.verb = verb, !.tmp = CurrentList[sel.tag],
                                  !.sent = CommandList(verb)[sel.tag]]
       ELSE Crash /\ UNCHANGED sel
    /\ UNCHANGED <<authorized, loadVars, listVars, laidOut, rows>>

CommandSucceeds ==
    /\ main = "command"
    /\ main' = "query"
    /\ UNCHANGED <<authorized, loadVars, listVars, laidOut, rows, sel>>

\* The message of a failed restart names the service at the button's index,
\* the third one.
CommandFails ==
    /\ main = "command"
    /\ UNCHANGED <<authorized, loadVars, listVars, laidOut>>
    /\ IF sel.verb = "restart" /\ Len(services) < 3
       THEN Crash /\ UNCHANGED <<rows, sel>>
       ELSE Done /\ Reload

\* The message of a failed status query names services[tag].
QueryFails ==
    /\ main = "query"
    /\ UNCHANGED <<authorized, loadVars, listVars, laidOut>>
    /\ IF sel.tag <= Len(services)
       THEN Done /\ Reload
       ELSE Crash /\ UNCHANGED <<rows, sel>>

\* Mutant: the status is stored in the object found at row tag by now.
QuerySucceedsByTag ==
    /\ main = "query"
    /\ sel.tag <= Len(CurrentList)
    /\ \E t \in Texts :
          status' = [status EXCEPT ![CurrentList[sel.tag]] = [of |-> sel.tmp, text |-> t]]
    /\ UNCHANGED <<authorized, loadVars, services, filteredServices, isFiltered, laidOut>>
    /\ Done
    /\ Reload

\* The status is stored in the object read at the start, which then replaces
\* row tag of the array.  filteredArrayUsingPredicate: promises an immutable
\* array: replacing in it works or raises.
QuerySucceeds ==
    /\ main = "query"
    /\ \E t \in Texts : status' = [status EXCEPT ![sel.tmp] = [of |-> sel.tmp, text |-> t]]
    /\ UNCHANGED <<authorized, loadVars, isFiltered, laidOut>>
    /\ \/ /\ sel.tag <= Len(CurrentList)
          /\ IF isFiltered
             THEN /\ filteredServices' = [filteredServices EXCEPT ![sel.tag] = sel.tmp]
                  /\ UNCHANGED services
             ELSE /\ services' = [services EXCEPT ![sel.tag] = sel.tmp]
                  /\ UNCHANGED filteredServices
          /\ Done
          /\ Reload
       \/ /\ isFiltered \/ sel.tag > Len(CurrentList)
          /\ Crash
          /\ UNCHANGED <<services, filteredServices, rows, sel>>

MainStep == CommandSucceeds \/ CommandFails \/ QueryFails \/ QuerySucceeds

User ==
    \/ FirstLayout
    \/ SearchCleared
    \/ \E M \in SUBSET Names : SearchFor(M)
    \/ \E r \in 1..rows : DrawRow(r) \/ Tap(r)
    \/ Cancel
    \/ \E verb \in Verbs : Choose(verb)

Next == main # "crashed" /\ (LoaderStep \/ HudFaded \/ MainStep \/ User)

Spec == Init /\ [][Next]_vars

Fairness ==
    /\ WF_vars(main # "crashed" /\ LoaderStep)
    /\ WF_vars(main # "crashed" /\ HudFaded)
    /\ WF_vars(main # "crashed" /\ MainStep)

FairSpec == Spec /\ Fairness
-----------------------------------------------------------------------------
(***************************************************************************)
(* Properties.                                                             *)
(***************************************************************************)
\* The status shown for a service is an answer that very service gave: the
\* loader writes through an index (line 83) and the handler through an object
\* (line 303), while rows move under both.
StatusBelongsToService == \A n \in Names : status[n] # Nil => status[n].of = n

\* Once the list has settled, stop and start are sent for the service whose name
\* titled the alert, although the handler looks the row up again by its tag;
\* restart does so when the list is not filtered.
CommandGoesToTitledService ==
    (/\ main \in {"command", "query"} /\ sel.settled
     /\ sel.verb # "restart" \/ ~isFiltered)
    => sel.sent = sel.title

\* When the load has ended the table holds exactly the rows of its array, so
\* no row it draws or offers lies outside it.
RowsMatchAfterLoad == loader = "done" /\ main # "crashed" => rows = Len(CurrentList)

\* The overlay goes away and the table is reloaded, whatever the listing and
\* the status queries answer.
LoadSettles == <>((loader = "done" /\ hud = "off") \/ main = "crashed")

\* The service whose status the restart handler refreshes is the one it
\* restarted: the comment at line 327 speaks of one service.
RestartUpdatesRestartedService ==
    main = "query" /\ sel.verb = "restart" => sel.sent = sel.tmp
=============================================================================
