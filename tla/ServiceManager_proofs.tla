----------------------- MODULE ServiceManager_proofs ------------------------
(***************************************************************************)
(* Proofs about the service screen, for every listing of /etc/init.d.      *)
(***************************************************************************)
EXTENDS ServiceManager, FiniteSetTheorems, SequenceTheorems, TLAPS

\* Until the overlay is hidden no row has been tapped: it takes the touches, and
\* before it is shown there is no row to tap.
NoTapWhileLoading ==
    /\ loader \in {"start", "list", "append", "status", "hide"} => main \in {"idle", "crashed"}
    /\ loader \in {"list", "append", "status", "hide"} => hud = "on"
    /\ loader = "start" => services = <<>> /\ filteredServices = <<>> /\ rows = 0

\* So the loop appends to the array undisturbed: its i-th object is its own.
LoadedPrefix ==
    /\ loader = "list" => services = <<>>
    /\ loader = "append" => /\ i <= Len(InitD) + 1 /\ Len(services) = i - 1
                            /\ \A k \in 1..(i - 1) : services[k] = InitD[k]
    /\ loader = "status" => /\ i <= Len(InitD) /\ Len(services) = i
                            /\ \A k \in 1..i : services[k] = InitD[k]

\* The object a handler works on was read from the array.
HandlerReads == main \in {"command", "query"} => sel.tmp \in Names

\* An alert opened on the settled list keeps its row.
AlertKeepsRow ==
    main = "alert" /\ sel.settled => /\ loader = "done"
                                     /\ sel.tag <= Len(CurrentList)
                                     /\ CurrentList[sel.tag] = sel.title

\* The flags, and the rest of the state, have their types.
FlagsOK == authorized \in BOOLEAN /\ isFiltered \in BOOLEAN /\ laidOut \in BOOLEAN

Selections == [tag : Nat \ {0}, title : Names \cup {Nil}, settled : BOOLEAN,
               verb : Verbs \cup {Nil}, tmp : Names \cup {Nil}, sent : Names \cup {Nil}]

StateOK ==
    /\ loader \in {"start", "list", "append", "status", "hide", "prune", "notify", "done"}
    /\ i \in Nat \ {0}
    /\ services \in Seq(Names) /\ filteredServices \in Seq(Names)
    /\ status \in [Names -> Responses \cup {Nil}]
    /\ rows \in Nat
    /\ hud \in {"off", "on", "fading"}
    /\ main \in {"idle", "alert", "command", "query", "crashed"}
    /\ sel \in Selections

IInv == /\ FlagsOK /\ StateOK /\ NoTapWhileLoading /\ LoadedPrefix /\ HandlerReads
        /\ StatusBelongsToService /\ AlertKeepsRow /\ CommandGoesToTitledService

\* The names listed are names.
LEMMA InitDNames == Len(InitD) \in Nat /\ \A k \in 1..Len(InitD) : InitD[k] \in Names
  BY InitDAssumption DEF Names

\* Rows are read from a sequence of names.
LEMMA CurrentListType == StateOK => CurrentList \in Seq(Names)
  BY DEF StateOK, CurrentList

\* Removing an element of a sequence leaves one over the same set.
LEMMA RemoveAtType ==
  ASSUME NEW S, NEW s \in Seq(S), NEW k \in 1..Len(s)
  PROVE  RemoveAt(s, k) \in Seq(S)
  BY DEF RemoveAt

\* A function on an initial interval of the positive numbers is a sequence.
LEMMA IntervalFunctionIsSeq ==
  ASSUME NEW S, NEW n \in Nat, NEW f \in [1..n -> S]
  PROVE  f \in Seq(S)
  BY SeqDef, Zenon

\* The locals of a handler that has returned.
LEMMA NoSelectionType == NoSelection \in Selections
  BY DEF NoSelection, Selections

\* The screen opens in the inductive invariant.
LEMMA InitIInv == Init => IInv
<1> SUFFICES ASSUME Init PROVE IInv
  OBVIOUS
<1>1. FlagsOK
  BY DEF Init, FlagsOK
<1>2. StateOK
  BY NoSelectionType DEF Init, StateOK
<1> QED
  BY <1>1, <1>2 DEF Init, IInv, NoTapWhileLoading, LoadedPrefix, HandlerReads,
              StatusBelongsToService, AlertKeepsRow, CommandGoesToTitledService

\* Every action preserves the inductive invariant.
LEMMA NextIInv == IInv /\ [Next]_vars => IInv'
<1> SUFFICES ASSUME IInv, [Next]_vars PROVE IInv'
  OBVIOUS
<1>0. /\ FlagsOK /\ StateOK /\ NoTapWhileLoading /\ LoadedPrefix /\ HandlerReads
      /\ StatusBelongsToService /\ AlertKeepsRow /\ CommandGoesToTitledService
  BY DEF IInv
<1> USE <1>0, InitDNames
<1>1. CASE LoadBegin
  <2> USE <1>1 DEF LoadBegin, listVars
  <2>1. FlagsOK'
    BY DEF FlagsOK
  <2>2. StateOK'
    BY CurrentListType DEF StateOK, CurrentList
  <2>3. NoTapWhileLoading' /\ LoadedPrefix'
    BY DEF NoTapWhileLoading, LoadedPrefix, StateOK, CurrentList
  <2>4. HandlerReads' /\ StatusBelongsToService'
    BY DEF HandlerReads, StatusBelongsToService
  <2>5. AlertKeepsRow' /\ CommandGoesToTitledService'
    BY DEF AlertKeepsRow, CommandGoesToTitledService, CurrentList, NoTapWhileLoading
  <2> QED
    BY <2>1, <2>2, <2>3, <2>4, <2>5 DEF IInv
<1>2. CASE ListFails
  <2> USE <1>2 DEF ListFails, HideHud, listVars
  <2>1. FlagsOK'
    BY DEF FlagsOK
  <2>2. StateOK'
    BY CurrentListType DEF StateOK, CurrentList
  <2>3. NoTapWhileLoading' /\ LoadedPrefix'
    BY DEF NoTapWhileLoading, LoadedPrefix, StateOK, CurrentList
  <2>4. HandlerReads' /\ StatusBelongsToService'
    BY DEF HandlerReads, StatusBelongsToService
  <2>5. AlertKeepsRow' /\ CommandGoesToTitledService'
    BY DEF AlertKeepsRow, CommandGoesToTitledService, CurrentList, NoTapWhileLoading
  <2> QED
    BY <2>1, <2>2, <2>3, <2>4, <2>5 DEF IInv
<1>3. CASE ListSucceeds
  <2> USE <1>3 DEF ListSucceeds, listVars
  <2>1. FlagsOK'
    BY DEF FlagsOK
  <2>2. StateOK'
    BY CurrentListType DEF StateOK, CurrentList
  <2>3. NoTapWhileLoading' /\ LoadedPrefix'
    BY DEF NoTapWhileLoading, LoadedPrefix, StateOK, CurrentList
  <2>4. HandlerReads' /\ StatusBelongsToService'
    BY DEF HandlerReads, StatusBelongsToService
  <2>5. AlertKeepsRow' /\ CommandGoesToTitledService'
    BY DEF AlertKeepsRow, CommandGoesToTitledService, CurrentList, NoTapWhileLoading
  <2> QED
    BY <2>1, <2>2, <2>3, <2>4, <2>5 DEF IInv
<1>4. CASE AppendService
  <2> USE <1>4 DEF AppendService
  <2>1. FlagsOK'
    BY DEF FlagsOK
  <2>2. StateOK'
    <3>1. i \in 1..Len(InitD) => InitD[i] \in Names
      OBVIOUS
    <3>2. \/ UNCHANGED services
          \/ InitD[i] \in Names /\ services' = Append(services, InitD[i])
      BY <3>1 DEF StateOK
    <3>3. services' \in Seq(Names)
      BY <3>2 DEF StateOK
    <3> QED
      BY <3>3 DEF StateOK
  <2>3. NoTapWhileLoading' /\ LoadedPrefix'
    BY DEF NoTapWhileLoading, LoadedPrefix, StateOK, CurrentList
  <2>4. HandlerReads' /\ StatusBelongsToService'
    BY DEF HandlerReads, StatusBelongsToService
  <2>5. AlertKeepsRow' /\ CommandGoesToTitledService'
    BY DEF AlertKeepsRow, CommandGoesToTitledService, CurrentList, NoTapWhileLoading
  <2> QED
    BY <2>1, <2>2, <2>3, <2>4, <2>5 DEF IInv
<1>5. CASE StatusAnswer
  <2> USE <1>5 DEF StatusAnswer, Crash
  <2>1. FlagsOK'
    BY DEF FlagsOK
  <2>2. StateOK'
    <3>1. i \in 1..Len(InitD) /\ services[i] = InitD[i]
      BY DEF StateOK, LoadedPrefix
    <3>2. [of |-> InitD[i], text |-> "reported"] \in Responses
      BY <3>1 DEF Responses, Texts
    <3>3. status' \in [Names -> Responses \cup {Nil}]
      BY <3>2 DEF StateOK
    <3> QED
      BY <3>3 DEF StateOK
  <2>3. NoTapWhileLoading' /\ LoadedPrefix'
    BY DEF NoTapWhileLoading, LoadedPrefix, StateOK, CurrentList
  <2>4. HandlerReads' /\ StatusBelongsToService'
    <3>1. i \in 1..Len(InitD) /\ services[i] = InitD[i]
      BY DEF StateOK, LoadedPrefix
    <3>2. StatusBelongsToService'
      BY <3>1 DEF StatusBelongsToService, StateOK
    <3> QED
      BY <3>2 DEF HandlerReads
  <2>5. AlertKeepsRow' /\ CommandGoesToTitledService'
    BY DEF AlertKeepsRow, CommandGoesToTitledService, CurrentList, NoTapWhileLoading
  <2> QED
    BY <2>1, <2>2, <2>3, <2>4, <2>5 DEF IInv
<1>6. CASE HideAfterLoad
  <2> USE <1>6 DEF HideAfterLoad, HideHud, listVars
  <2>1. FlagsOK'
    BY DEF FlagsOK
  <2>2. StateOK'
    BY CurrentListType DEF StateOK, CurrentList
  <2>3. NoTapWhileLoading' /\ LoadedPrefix'
    BY DEF NoTapWhileLoading, LoadedPrefix, StateOK, CurrentList
  <2>4. HandlerReads' /\ StatusBelongsToService'
    BY DEF HandlerReads, StatusBelongsToService
  <2>5. AlertKeepsRow' /\ CommandGoesToTitledService'
    BY DEF AlertKeepsRow, CommandGoesToTitledService, CurrentList, NoTapWhileLoading
  <2> QED
    BY <2>1, <2>2, <2>3, <2>4, <2>5 DEF IInv
<1>7. CASE PruneStep
  <2> USE <1>7 DEF PruneStep
  <2>1. FlagsOK'
    BY DEF FlagsOK
  <2>2. StateOK'
    <3>1. i \in 1..Len(services) => RemoveAt(services, i) \in Seq(Names)
      BY RemoveAtType DEF StateOK
    <3>2. i' = i \/ i' = i + 1
      BY Zenon
    <3>3. UNCHANGED services \/ (i <= Len(services) /\ services' = RemoveAt(services, i))
      BY Zenon
    <3>4. UNCHANGED <<status, filteredServices, rows, hud, main, sel>>
          /\ loader' \in {"prune", "notify"}
      BY Zenon
    <3> HIDE <1>7
    <3>5. services' \in Seq(Names)
      <4>1. i \in Nat \ {0} /\ services \in Seq(Names) /\ Len(services) \in Nat
        BY DEF StateOK
      <4>2. i <= Len(services) => i \in 1..Len(services)
        BY <4>1
      <4> QED
        BY <3>1, <3>3, <4>1, <4>2, Zenon
    <3> QED
      BY <3>2, <3>4, <3>5 DEF StateOK
  <2>3. NoTapWhileLoading' /\ LoadedPrefix'
    BY DEF NoTapWhileLoading, LoadedPrefix, StateOK, CurrentList
  <2>4. HandlerReads' /\ StatusBelongsToService'
    BY DEF HandlerReads, StatusBelongsToService
  <2>5. AlertKeepsRow' /\ CommandGoesToTitledService'
    BY DEF AlertKeepsRow, CommandGoesToTitledService, CurrentList, NoTapWhileLoading
  <2> QED
    BY <2>1, <2>2, <2>3, <2>4, <2>5 DEF IInv
<1>8. CASE Notify
  <2> USE <1>8 DEF Notify, HideHud, Reload, listVars
  <2>1. FlagsOK'
    BY DEF FlagsOK
  <2>2. StateOK'
    BY CurrentListType DEF StateOK, CurrentList
  <2>3. NoTapWhileLoading' /\ LoadedPrefix'
    BY DEF NoTapWhileLoading, LoadedPrefix, StateOK, CurrentList
  <2>4. HandlerReads' /\ StatusBelongsToService'
    BY DEF HandlerReads, StatusBelongsToService
  <2>5. AlertKeepsRow' /\ CommandGoesToTitledService'
    BY DEF AlertKeepsRow, CommandGoesToTitledService, CurrentList, NoTapWhileLoading
  <2> QED
    BY <2>1, <2>2, <2>3, <2>4, <2>5 DEF IInv
<1>9. CASE HudFaded
  <2> USE <1>9 DEF HudFaded, listVars
  <2>1. FlagsOK'
    BY DEF FlagsOK
  <2>2. StateOK'
    BY CurrentListType DEF StateOK, CurrentList
  <2>3. NoTapWhileLoading' /\ LoadedPrefix'
    BY DEF NoTapWhileLoading, LoadedPrefix, StateOK, CurrentList
  <2>4. HandlerReads' /\ StatusBelongsToService'
    BY DEF HandlerReads, StatusBelongsToService
  <2>5. AlertKeepsRow' /\ CommandGoesToTitledService'
    BY DEF AlertKeepsRow, CommandGoesToTitledService, CurrentList, NoTapWhileLoading
  <2> QED
    BY <2>1, <2>2, <2>3, <2>4, <2>5 DEF IInv
<1>10. CASE FirstLayout
  <2> USE <1>10 DEF FirstLayout, Reload, loadVars, listVars
  <2>1. FlagsOK'
    BY DEF FlagsOK
  <2>2. StateOK'
    BY CurrentListType DEF StateOK, CurrentList
  <2>3. NoTapWhileLoading' /\ LoadedPrefix'
    BY DEF NoTapWhileLoading, LoadedPrefix, StateOK, CurrentList
  <2>4. HandlerReads' /\ StatusBelongsToService'
    BY DEF HandlerReads, StatusBelongsToService
  <2>5. AlertKeepsRow' /\ CommandGoesToTitledService'
    BY DEF AlertKeepsRow, CommandGoesToTitledService, CurrentList, NoTapWhileLoading
  <2> QED
    BY <2>1, <2>2, <2>3, <2>4, <2>5 DEF IInv
<1>11. CASE SearchCleared
  <2> USE <1>11 DEF SearchCleared, Reload, loadVars
  <2>1. FlagsOK'
    BY DEF FlagsOK
  <2>2. StateOK'
    BY CurrentListType DEF StateOK, CurrentList
  <2>3. NoTapWhileLoading' /\ LoadedPrefix'
    BY DEF NoTapWhileLoading, LoadedPrefix, StateOK, CurrentList
  <2>4. HandlerReads' /\ StatusBelongsToService'
    BY DEF HandlerReads, StatusBelongsToService
  <2>5. AlertKeepsRow' /\ CommandGoesToTitledService'
    BY DEF AlertKeepsRow, CommandGoesToTitledService, CurrentList, NoTapWhileLoading
  <2> QED
    BY <2>1, <2>2, <2>3, <2>4, <2>5 DEF IInv
<1>12. ASSUME NEW M \in SUBSET Names, SearchFor(M) PROVE IInv'
  <2> USE <1>12 DEF SearchFor, Reload, loadVars
  <2>1. FlagsOK'
    BY DEF FlagsOK
  <2>2. StateOK'
    <3> DEFINE keep == {k \in 1..Len(services) : services[k] \in M}
    <3>1. Cardinality(keep) \in Nat
      <4>1. Len(services) \in Nat
        BY DEF StateOK
      <4>2. IsFiniteSet(1..Len(services)) /\ keep \subseteq 1..Len(services)
        BY <4>1, FS_Interval
      <4> QED
        BY <4>2, FS_Subset, FS_CardinalityType
    <3>2. PICK p \in [1..Cardinality(keep) -> keep] :
              filteredServices' = [k \in 1..Cardinality(keep) |-> services[p[k]]]
      OBVIOUS
    <3>3. \A k \in keep : services[k] \in Names
      BY DEF StateOK
    <3> HIDE DEF keep
    <3>4. \A k \in 1..Cardinality(keep) : services[p[k]] \in Names
      BY <3>3
    <3>5. filteredServices' \in [1..Cardinality(keep) -> Names]
      BY <3>2, <3>4
    <3>6. filteredServices' \in Seq(Names)
      BY <3>1, <3>5, IntervalFunctionIsSeq
    <3>7. CurrentList' = filteredServices' /\ rows' = Len(CurrentList')
      BY Zenon DEF CurrentList
    <3>8. rows' \in Nat
      <4> HIDE <1>12
      <4> QED
        BY <3>6, <3>7
    <3> QED
      BY <3>6, <3>8 DEF StateOK
  <2>3. NoTapWhileLoading' /\ LoadedPrefix'
    <3>1. loader = "start" => filteredServices' = <<>>
      <4> SUFFICES ASSUME loader = "start" PROVE filteredServices' = <<>>
        OBVIOUS
      <4>1. {k \in 1..Len(services) : services[k] \in M} = {}
        BY DEF NoTapWhileLoading
      <4> QED
        BY <4>1, FS_EmptySet
    <3> QED
      BY <3>1 DEF NoTapWhileLoading, LoadedPrefix, CurrentList
  <2>4. HandlerReads' /\ StatusBelongsToService'
    BY DEF HandlerReads, StatusBelongsToService
  <2>5. AlertKeepsRow' /\ CommandGoesToTitledService'
    BY DEF AlertKeepsRow, CommandGoesToTitledService, CurrentList, NoTapWhileLoading
  <2> QED
    BY <2>1, <2>2, <2>3, <2>4, <2>5 DEF IInv
<1>13. ASSUME NEW r \in 1..rows, DrawRow(r) PROVE IInv'
  <2> USE <1>13 DEF DrawRow, Crash, loadVars, listVars
  <2>1. FlagsOK'
    BY DEF FlagsOK
  <2>2. StateOK'
    BY CurrentListType DEF StateOK, CurrentList
  <2>3. NoTapWhileLoading' /\ LoadedPrefix'
    BY DEF NoTapWhileLoading, LoadedPrefix, StateOK, CurrentList
  <2>4. HandlerReads' /\ StatusBelongsToService'
    BY DEF HandlerReads, StatusBelongsToService
  <2>5. AlertKeepsRow' /\ CommandGoesToTitledService'
    BY DEF AlertKeepsRow, CommandGoesToTitledService, CurrentList, NoTapWhileLoading
  <2> QED
    BY <2>1, <2>2, <2>3, <2>4, <2>5 DEF IInv
<1>14. ASSUME NEW r \in 1..rows, Tap(r) PROVE IInv'
  <2> USE <1>14 DEF Tap, Crash, loadVars, listVars
  <2>1. FlagsOK'
    BY DEF FlagsOK
  <2>2. StateOK'
    <3>1. CurrentList \in Seq(Names)
      BY CurrentListType
    <3>2. r <= Len(CurrentList) => CurrentList[r] \in Names /\ r \in Nat \ {0}
      BY <3>1 DEF StateOK
    <3>3. sel' \in Selections
      BY <3>2, NoSelectionType DEF Selections, StateOK
    <3> QED
      BY <3>3 DEF StateOK
  <2>3. NoTapWhileLoading' /\ LoadedPrefix'
    BY DEF NoTapWhileLoading, LoadedPrefix, StateOK, CurrentList
  <2>4. HandlerReads' /\ StatusBelongsToService'
    BY DEF HandlerReads, StatusBelongsToService
  <2>5. AlertKeepsRow' /\ CommandGoesToTitledService'
    <3>1. CurrentList' = CurrentList
      BY DEF CurrentList
    <3>2. sel' # sel => /\ r <= Len(CurrentList) /\ sel'.tag = r /\ sel'.title = CurrentList[r]
                        /\ sel'.settled = (loader = "done")
      BY DEF NoSelection
    <3>3. main' = "alert" => /\ r <= Len(CurrentList) /\ sel'.tag = r /\ sel'.title = CurrentList[r]
                             /\ sel'.settled = (loader = "done")
      BY DEF NoSelection
    <3> QED
      BY <3>1, <3>3 DEF AlertKeepsRow, CommandGoesToTitledService
  <2> QED
    BY <2>1, <2>2, <2>3, <2>4, <2>5 DEF IInv
<1>15. CASE Cancel
  <2> USE <1>15 DEF Cancel, Done, Crash, loadVars, listVars
  <2>1. FlagsOK'
    BY DEF FlagsOK
  <2>2. StateOK'
    <3>1. sel' \in Selections
      BY NoSelectionType DEF StateOK
    <3>2. rows' \in Nat
      BY CurrentListType DEF StateOK, CurrentList
    <3> QED
      BY <3>1, <3>2 DEF StateOK
  <2>3. NoTapWhileLoading' /\ LoadedPrefix'
    BY DEF NoTapWhileLoading, LoadedPrefix, StateOK, CurrentList
  <2>4. HandlerReads' /\ StatusBelongsToService'
    BY DEF HandlerReads, StatusBelongsToService
  <2>5. AlertKeepsRow' /\ CommandGoesToTitledService'
    BY DEF AlertKeepsRow, CommandGoesToTitledService, CurrentList, NoTapWhileLoading
  <2> QED
    BY <2>1, <2>2, <2>3, <2>4, <2>5 DEF IInv
<1>16. ASSUME NEW verb \in Verbs, Choose(verb) PROVE IInv'
  <2> USE <1>16 DEF Choose, Crash, loadVars, listVars
  <2>1. FlagsOK'
    BY DEF FlagsOK
  <2>2. StateOK'
    <3>1. CurrentList \in Seq(Names) /\ CommandList(verb) \in Seq(Names) /\ sel.tag \in Nat \ {0}
      BY CurrentListType DEF StateOK, CommandList, Selections
    <3>2. sel' # sel => CurrentList[sel.tag] \in Names /\ CommandList(verb)[sel.tag] \in Names
      BY <3>1
    <3>3. sel' \in Selections
      BY <3>2 DEF StateOK, Selections
    <3> QED
      BY <3>3 DEF StateOK
  <2>3. NoTapWhileLoading' /\ LoadedPrefix'
    BY DEF NoTapWhileLoading, LoadedPrefix, StateOK, CurrentList
  <2>4. HandlerReads' /\ StatusBelongsToService'
    <3>1. CurrentList \in Seq(Names) /\ sel.tag \in Nat \ {0}
      BY CurrentListType DEF StateOK, Selections
    <3>2. main' = "command" => sel'.tmp = CurrentList[sel.tag] /\ sel.tag <= Len(CurrentList)
      BY DEF StateOK, Selections
    <3> QED
      BY <3>1, <3>2 DEF HandlerReads, StatusBelongsToService
  <2>5. AlertKeepsRow' /\ CommandGoesToTitledService'
    <3>1. main' = "command" => /\ sel'.verb = verb /\ sel'.sent = CommandList(verb)[sel.tag]
                               /\ sel'.title = sel.title /\ sel'.settled = sel.settled
      BY DEF StateOK, Selections
    <3>2. sel.settled => CurrentList[sel.tag] = sel.title
      BY DEF AlertKeepsRow
    <3> QED
      BY <3>1, <3>2 DEF AlertKeepsRow, CommandGoesToTitledService, CommandList, CurrentList
  <2> QED
    BY <2>1, <2>2, <2>3, <2>4, <2>5 DEF IInv
<1>17. CASE CommandSucceeds
  <2> USE <1>17 DEF CommandSucceeds, loadVars, listVars
  <2>1. FlagsOK'
    BY DEF FlagsOK
  <2>2. StateOK'
    BY CurrentListType DEF StateOK, CurrentList
  <2>3. NoTapWhileLoading' /\ LoadedPrefix'
    BY DEF NoTapWhileLoading, LoadedPrefix, StateOK, CurrentList
  <2>4. HandlerReads' /\ StatusBelongsToService'
    BY DEF HandlerReads, StatusBelongsToService
  <2>5. AlertKeepsRow' /\ CommandGoesToTitledService'
    BY DEF AlertKeepsRow, CommandGoesToTitledService, CurrentList, NoTapWhileLoading
  <2> QED
    BY <2>1, <2>2, <2>3, <2>4, <2>5 DEF IInv
<1>18. CASE CommandFails
  <2> USE <1>18 DEF CommandFails, Done, Crash, Reload, loadVars, listVars
  <2>1. FlagsOK'
    BY DEF FlagsOK
  <2>2. StateOK'
    <3>1. sel' \in Selections
      BY NoSelectionType DEF StateOK
    <3>2. rows' \in Nat
      BY CurrentListType DEF StateOK, CurrentList
    <3> QED
      BY <3>1, <3>2 DEF StateOK
  <2>3. NoTapWhileLoading' /\ LoadedPrefix'
    BY DEF NoTapWhileLoading, LoadedPrefix, StateOK, CurrentList
  <2>4. HandlerReads' /\ StatusBelongsToService'
    BY DEF HandlerReads, StatusBelongsToService
  <2>5. AlertKeepsRow' /\ CommandGoesToTitledService'
    BY DEF AlertKeepsRow, CommandGoesToTitledService, CurrentList, NoTapWhileLoading
  <2> QED
    BY <2>1, <2>2, <2>3, <2>4, <2>5 DEF IInv
<1>19. CASE QueryFails
  <2> USE <1>19 DEF QueryFails, Done, Crash, Reload, loadVars, listVars
  <2>1. FlagsOK'
    BY DEF FlagsOK
  <2>2. StateOK'
    <3>1. sel' \in Selections
      BY NoSelectionType DEF StateOK
    <3>2. rows' \in Nat
      BY CurrentListType DEF StateOK, CurrentList
    <3> QED
      BY <3>1, <3>2 DEF StateOK
  <2>3. NoTapWhileLoading' /\ LoadedPrefix'
    BY DEF NoTapWhileLoading, LoadedPrefix, StateOK, CurrentList
  <2>4. HandlerReads' /\ StatusBelongsToService'
    BY DEF HandlerReads, StatusBelongsToService
  <2>5. AlertKeepsRow' /\ CommandGoesToTitledService'
    BY DEF AlertKeepsRow, CommandGoesToTitledService, CurrentList, NoTapWhileLoading
  <2> QED
    BY <2>1, <2>2, <2>3, <2>4, <2>5 DEF IInv
<1>20. CASE QuerySucceeds
  <2> USE <1>20 DEF QuerySucceeds, Done, Crash, Reload, loadVars
  <2>1. FlagsOK'
    BY DEF FlagsOK
  <2>2. StateOK'
    <3>1. sel.tmp \in Names /\ sel.tag \in Nat \ {0}
      BY DEF HandlerReads, StateOK, Selections
    <3>2. \A t \in Texts : [of |-> sel.tmp, text |-> t] \in Responses
      BY <3>1 DEF Responses
    <3>3. status' \in [Names -> Responses \cup {Nil}]
      BY <3>2 DEF StateOK
    <3>4. services' \in Seq(Names) /\ filteredServices' \in Seq(Names)
      BY <3>1 DEF StateOK, CurrentList
    <3>5. sel' \in Selections
      BY NoSelectionType DEF StateOK
    <3>6. rows' \in Nat
      BY <3>4 DEF StateOK, CurrentList
    <3> QED
      BY <3>3, <3>4, <3>5, <3>6 DEF StateOK
  <2>3. NoTapWhileLoading' /\ LoadedPrefix'
    BY DEF NoTapWhileLoading, LoadedPrefix, StateOK, CurrentList
  <2>4. HandlerReads' /\ StatusBelongsToService'
    BY DEF HandlerReads, StatusBelongsToService
  <2>5. AlertKeepsRow' /\ CommandGoesToTitledService'
    BY DEF AlertKeepsRow, CommandGoesToTitledService, CurrentList, NoTapWhileLoading
  <2> QED
    BY <2>1, <2>2, <2>3, <2>4, <2>5 DEF IInv
<1>21. CASE UNCHANGED vars
  <2> USE <1>21 DEF vars
  <2>1. FlagsOK'
    BY DEF FlagsOK
  <2>2. StateOK'
    BY CurrentListType DEF StateOK, CurrentList
  <2>3. NoTapWhileLoading' /\ LoadedPrefix'
    BY DEF NoTapWhileLoading, LoadedPrefix, StateOK, CurrentList
  <2>4. HandlerReads' /\ StatusBelongsToService'
    BY DEF HandlerReads, StatusBelongsToService
  <2>5. AlertKeepsRow' /\ CommandGoesToTitledService'
    BY DEF AlertKeepsRow, CommandGoesToTitledService, CurrentList, NoTapWhileLoading
  <2> QED
    BY <2>1, <2>2, <2>3, <2>4, <2>5 DEF IInv
<1> QED
  BY <1>1, <1>2, <1>3, <1>4, <1>5, <1>6, <1>7, <1>8, <1>9, <1>10, <1>11, <1>12, <1>13, <1>14, <1>15, <1>16, <1>17, <1>18, <1>19, <1>20, <1>21
     DEF Next, LoaderStep, MainStep, User

\* The inductive invariant holds in every reachable state.
THEOREM Invariance == Spec => []IInv
<1>1. Init => IInv
  BY InitIInv
<1>2. IInv /\ [Next]_vars => IInv'
  BY NextIInv
<1> QED
  BY <1>1, <1>2, PTL DEF Spec

\* Both threads keep the types of what they share.
THEOREM TypeCorrect == Spec => []TypeOK
<1>1. IInv => TypeOK
  BY DEF IInv, FlagsOK, StateOK, Selections, TypeOK
<1> QED
  BY <1>1, Invariance, PTL

\* For every listing, no service is ever shown the status of another one.
THEOREM StatusOwned == Spec => []StatusBelongsToService
<1>1. IInv => StatusBelongsToService
  BY DEF IInv
<1> QED
  BY <1>1, Invariance, PTL

\* For every listing, a command chosen on the settled list goes to the service
\* that titled the alert.
THEOREM CommandsTitled == Spec => []CommandGoesToTitledService
<1>1. IInv => CommandGoesToTitledService
  BY DEF IInv
<1> QED
  BY <1>1, Invariance, PTL

\* For every listing, the loaded table never believes in a row that its array
\* lacks.
THEOREM RowsMatch == Spec => []RowsMatchAfterLoad
<1>1. Init => RowsMatchAfterLoad
  BY DEF Init, RowsMatchAfterLoad
<1>2. IInv /\ RowsMatchAfterLoad /\ [Next]_vars => RowsMatchAfterLoad'
  <2> SUFFICES ASSUME IInv, RowsMatchAfterLoad, [Next]_vars, loader' = "done", main' # "crashed"
               PROVE rows' = Len(CurrentList')
    BY DEF RowsMatchAfterLoad
  <2>1. CASE UNCHANGED <<loader, rows, services, isFiltered, filteredServices>> /\ main # "crashed"
    BY <2>1 DEF RowsMatchAfterLoad, CurrentList
  <2>2. CASE Reload
    BY <2>2 DEF Reload
  <2>3. CASE UNCHANGED vars
    BY <2>1, <2>3 DEF vars
  <2>4. CASE main # "crashed" /\ LoaderStep
    BY <2>2, <2>4 DEF LoaderStep, LoadBegin, ListFails, ListSucceeds, AppendService,
                      StatusAnswer, HideAfterLoad, PruneStep, Notify
  <2>5. CASE main # "crashed" /\ (HudFaded \/ MainStep)
    BY <2>1, <2>2, <2>5 DEF HudFaded, MainStep, CommandSucceeds, CommandFails, QueryFails,
                            QuerySucceeds, Crash, loadVars, listVars
  <2>6. CASE main # "crashed" /\ User
    BY <2>1, <2>2, <2>6 DEF User, FirstLayout, SearchCleared, SearchFor, DrawRow, Tap, Cancel,
                            Choose, loadVars, listVars
  <2> QED
    BY <2>3, <2>4, <2>5, <2>6 DEF Next
<1> QED
  BY <1>1, <1>2, Invariance, PTL DEF Spec
=============================================================================
