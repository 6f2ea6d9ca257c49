----------------------- MODULE CommandScreens_proofs -----------------------
(***************************************************************************)
(* Proofs about the two screens that make commands out of text: the voice  *)
(* tab, which looks for servers in what was said, and the package screens, *)
(* which look for packages in what was printed.                            *)
(*                                                                         *)
(* The voice tab is treated for every list of stored servers, of which any *)
(* are MySQL ones, the package screens for every catalogue of packages, of *)
(* which any are wrapped.                                                  *)
(***************************************************************************)
EXTENDS PackageManager, VoiceControl, FiniteSetTheorems, SequenceTheorems,
        WellFoundedInduction, TLAPS
-----------------------------------------------------------------------------
(***************************************************************************)
(* What the loops find.                                                    *)
(***************************************************************************)
\* Every set of naturals that is not empty has a least element: the loops over
\* the servers stop at the first one they find.
LEMMA LeastExists ==
    ASSUME NEW S, S \subseteq Nat, S # {}
    PROVE  \E k \in S : \A j \in S : k <= j
<1>1. IsWellFoundedOn(OpToRel(<, Nat), Nat)
  BY NatLessThanWellFounded
<1>2. PICK k \in S : \A j \in S : ~(<<j, k>> \in OpToRel(<, Nat))
  BY <1>1, WFMin
<1>3. \A j \in S : ~(j < k)
  BY <1>2 DEF OpToRel
<1> QED
  BY <1>3

\* A set of indexes has a k-th one, for every k up to its size: the least
\* bound with k of them up to it.
LEMMA NthIsIndex ==
    ASSUME NEW n \in Nat, NEW I \in SUBSET (1..n), NEW k \in 1..Cardinality(I)
    PROVE  Nth(I, k) \in I
<1> DEFINE Upto(m) == {j \in I : j <= m}
           M == {m \in 0..n : Cardinality(Upto(m)) >= k}
<1>0. \A j \in I : j \in Int /\ 1 <= j /\ j <= n
  OBVIOUS
<1>1. IsFiniteSet(1..n)
  BY FS_Interval
<1>2. IsFiniteSet(I) /\ Cardinality(I) \in Nat
  BY <1>1, FS_Subset, FS_CardinalityType
<1>3. \A m : Upto(m) \in SUBSET I
  OBVIOUS
<1>4. \A m : IsFiniteSet(Upto(m)) /\ Cardinality(Upto(m)) \in Nat
  BY <1>2, <1>3, FS_Subset, FS_CardinalityType
<1>5. n \in M /\ M \subseteq Nat
  <2>1. Upto(n) = I
    BY <1>0, Zenon
  <2> QED
    BY <2>1, <1>2
<1>6. PICK m \in M : \A l \in M : m <= l
  <2> HIDE DEF M
  <2> QED
    BY <1>5, LeastExists
<1>7. m # 0
  <2>1. ASSUME NEW j \in Upto(0) PROVE FALSE
    BY <1>0, <2>1
  <2>2. Upto(0) = {}
    BY <2>1
  <2>3. Cardinality(Upto(0)) = 0
    BY <2>2, FS_EmptySet
  <2> QED
    BY <2>3
<1>8. m \in Int /\ 1 <= m /\ m <= n /\ Cardinality(Upto(m)) >= k
  BY <1>7
<1>9. Cardinality(Upto(m - 1)) < k
  <2>1. m - 1 \in 0..n
    BY <1>8
  <2>2. m - 1 \notin M
    <3> HIDE DEF M
    <3> QED
      BY <1>6, <1>8
  <2>3. ~(Cardinality(Upto(m - 1)) >= k)
    BY <2>1, <2>2
  <2> HIDE DEF Upto
  <2> QED
    BY <2>3, <1>2, <1>4
<1>10. \A j \in I : (j <= m) = (j <= m - 1 \/ j = m)
  BY <1>0, <1>8
<1>11. m \in I
  <2>1. m \notin I => Upto(m) = Upto(m - 1)
    BY <1>10, Zenon
  <2> HIDE DEF Upto
  <2> QED
    BY <2>1, <1>4, <1>8, <1>9
<1>12. Upto(m) = Upto(m - 1) \cup {m}
  BY <1>10, <1>11, Zenon
<1>13. m \notin Upto(m - 1)
  BY <1>8
<1> HIDE DEF Upto
<1>14. Cardinality(Upto(m)) = Cardinality(Upto(m - 1)) + 1
  BY <1>4, <1>12, <1>13, FS_AddElement
<1>15. Cardinality(Upto(m)) = k
  BY <1>4, <1>8, <1>9, <1>14
<1> USE DEF Upto
<1> QED
  BY <1>11, <1>15 DEF Nth

\* What a loop keeps of an array is an array of some of its elements.
LEMMA SublistType ==
    ASSUME NEW S, NEW s \in Seq(S), NEW I \in SUBSET (1..Len(s))
    PROVE  Sublist(s, I) \in Seq(S)
<1>1. Len(s) \in Nat /\ \A k \in 1..Len(s) : s[k] \in S
  BY LenProperties, ElementOfSeq
<1>2. IsFiniteSet(1..Len(s))
  BY <1>1, FS_Interval
<1>3. Cardinality(I) \in Nat
  BY <1>2, FS_Subset, FS_CardinalityType
<1>4. \A k \in 1..Cardinality(I) : s[Nth(I, k)] \in S
  BY <1>1, NthIsIndex
<1>5. Sublist(s, I) \in [1..Cardinality(I) -> S]
  BY <1>4 DEF Sublist
<1> QED
  BY <1>3, <1>5, SeqDef

\* A function on an initial interval of the positive numbers is a sequence.
LEMMA FunctionIsSeq ==
    ASSUME NEW S, NEW n \in Nat, NEW f \in [1..n -> S]
    PROVE  f \in Seq(S) /\ Len(f) = n
<1>1. f \in Seq(S)
  BY SeqDef
<1>2. 1..n = 1..Len(f) /\ Len(f) \in Nat
  BY <1>1, LenProperties
<1> QED
  BY <1>1, <1>2

-----------------------------------------------------------------------------
(***************************************************************************)
(* The voice tab.  Its inductive invariant has three parts: the types, the *)
(* order of the background block of viewDidLoad (nothing is loaded, so     *)
(* nothing can be selected, before the state is reset) and the life of the *)
(* recognizer.                                                             *)
(***************************************************************************)
\* A selected server is one of the stored ones, and there is none before the
\* servers are loaded.
SelectionOK ==
    /\ isServerSelected => selectedServer \in Servers
    /\ setup \in {"launch", "reset", "load"} => servers = <<>> /\ ~isServerSelected

VoiceInv == VoiceTypeOK /\ SelectionOK /\ LiveRecognizerHeld /\ SpokenSkipsMySQL
\* The first server found is a loaded one that the text names.
LEMMA FirstFound ==
    ASSUME NEW S, Found(S) # {}, servers \in {<<>>, Stored}
    PROVE  First(S) \in Servers /\ First(S) \in S
<1>1. servers = Stored
  BY DEF Found
<1>2. Len(Stored) \in Nat
  BY StoredAssumption DEF StoredAssumption
<1>3. Found(S) \subseteq Nat
  BY <1>1, <1>2 DEF Found
<1>4. PICK k \in Found(S) : \A j \in Found(S) : k <= j
  BY <1>3, LeastExists
<1>5. (CHOOSE i \in Found(S) : \A j \in Found(S) : i <= j) \in Found(S)
  BY <1>4
<1> QED
  BY <1>1, <1>5 DEF First, Found, Servers

\* The servers the execution loop reaches are loaded, named and not MySQL ones.
LEMMA ReachedOK ==
    ASSUME NEW S, servers \in {<<>>, Stored}
    PROVE  \A k \in Reached(S) : servers[k] \in Servers \ MySQL
<1> SUFFICES ASSUME NEW k \in Reached(S) PROVE servers[k] \in Servers \ MySQL
  OBVIOUS
<1>1. servers = Stored /\ k \in 1..Len(Stored) /\ servers[k] \in S
  BY DEF Reached, Found
<1>2. k \in Nat
  BY <1>1, StoredAssumption DEF StoredAssumption
<1>3. k \notin Found(S \cap MySQL)
  <2>1. k \in Found(S \cap MySQL) => k < k
    BY DEF Reached
  <2>2. ~(k < k)
    BY <1>2
  <2> QED
    BY <2>1, <2>2
<1> QED
  BY <1>1, <1>3 DEF Found, Servers

\* Whom a status request is about: the selected server, or the first one named.
LEMMA CheckTargetOK ==
    ASSUME VoiceTypeOK, SelectionOK, NEW u
    PROVE  \/ CheckTarget(u) = {}
           \/ \E s \in Servers : CheckTarget(u) = {s}
<1>1. CASE isServerSelected
  BY <1>1 DEF CheckTarget, SelectionOK
<1>2. CASE ~isServerSelected /\ Found(u.joined) # {}
  BY <1>2, FirstFound DEF CheckTarget, VoiceTypeOK
<1>3. CASE ~isServerSelected /\ Found(u.joined) = {}
  BY <1>3 DEF CheckTarget
<1> QED
  BY <1>1, <1>2, <1>3
-----------------------------------------------------------------------------
(***************************************************************************)
(* The inductive invariant.                                                *)
(***************************************************************************)
\* The tab before viewDidLoad.
LEMMA VoiceInitInv == ASSUME VoiceInit PROVE VoiceInv
BY DEF VoiceInit, VoiceInv, VoiceTypeOK, SelectionOK, LiveRecognizerHeld, SpokenSkipsMySQL, NothingSent

\* Nothing is selected and nothing is found before the servers are loaded.
LEMMA FoundAfterSetup ==
    ASSUME SelectionOK, VoiceTypeOK, NEW S, Found(S) # {}
    PROVE  setup \notin {"launch", "reset", "load"}
BY DEF SelectionOK, Found

\* Every handler keeps the invariant; only the reset writes isServerSelected
\* without a server having been named, and it runs before one can be.
LEMMA VoiceNextInv ==
    ASSUME VoiceInv, [VoiceNext]_voiceVars
    PROVE  VoiceInv' /\ (isServerSelected => isServerSelected')
<1> USE DEF VoiceInv
<1> DEFINE Goal == VoiceInv' /\ (isServerSelected => isServerSelected')
<1>1. CASE SetupStep
  <2>1. CASE ShowHud
    BY <2>1 DEF ShowHud, VoiceTypeOK, SelectionOK, LiveRecognizerHeld, SpokenSkipsMySQL,
       selectVars, recVars, reviewVars
  <2>2. CASE ResetState
    BY <2>2 DEF ResetState, VoiceTypeOK, SelectionOK, LiveRecognizerHeld, SpokenSkipsMySQL,
       selectVars, recVars, reviewVars
  <2>3. CASE LoadServers
    BY <2>3 DEF LoadServers, VoiceTypeOK, SelectionOK, LiveRecognizerHeld, SpokenSkipsMySQL,
       selectVars, recVars, reviewVars
  <2>4. CASE HideHud
    BY <2>4 DEF HideHud, VoiceTypeOK, SelectionOK, LiveRecognizerHeld, SpokenSkipsMySQL,
       selectVars, recVars, reviewVars
  <2> QED
    BY <1>1, <2>1, <2>2, <2>3, <2>4 DEF SetupStep
<1>2. CASE StartListening \/ ToggleReview
  <2>1. CASE StartListening
    BY <2>1 DEF StartListening, VoiceTypeOK, SelectionOK, LiveRecognizerHeld, SpokenSkipsMySQL,
       setupVars, selectVars, recVars, reviewVars
  <2>2. CASE ToggleReview
    BY <2>2 DEF ToggleReview, VoiceTypeOK, SelectionOK, LiveRecognizerHeld, SpokenSkipsMySQL,
       setupVars, selectVars, recVars, reviewVars
  <2> QED
    BY <1>2, <2>1, <2>2
<1>3. CASE ExecuteReviewed
  BY <1>3 DEF ExecuteReviewed, VoiceTypeOK, SelectionOK, LiveRecognizerHeld,
     SpokenSkipsMySQL, setupVars, selectVars, recVars, NothingSent
<1>4. CASE DidBeginRecording \/ DidFinishRecording \/ DidFinishWithError
  <2>1. CASE DidBeginRecording
    BY <2>1 DEF DidBeginRecording, VoiceTypeOK, SelectionOK, LiveRecognizerHeld, SpokenSkipsMySQL,
       setupVars, selectVars, reviewVars
  <2>2. CASE DidFinishRecording
    BY <2>2 DEF DidFinishRecording, VoiceTypeOK, SelectionOK, LiveRecognizerHeld, SpokenSkipsMySQL,
       setupVars, selectVars, reviewVars
  <2>3. CASE DidFinishWithError
    BY <2>3 DEF DidFinishWithError, VoiceTypeOK, SelectionOK, LiveRecognizerHeld, SpokenSkipsMySQL,
       setupVars, selectVars, reviewVars
  <2> QED
    BY <1>4, <2>1, <2>2, <2>3
<1>5. CASE EmptyResults
  BY <1>5 DEF EmptyResults, ResultsArrive, RunsToEnd, VoiceTypeOK, SelectionOK,
     LiveRecognizerHeld, SpokenSkipsMySQL, setupVars, selectVars, reviewVars
<1>6. ASSUME NEW u \in Utterances, UseServer(u)
      PROVE  Goal
  <2>1. CASE Found(u.trimmed) # {}
    <3>1. First(u.trimmed) \in Servers /\ setup \notin {"launch", "reset", "load"}
      BY <2>1, FirstFound, FoundAfterSetup DEF VoiceTypeOK
    <3> QED
      BY <1>6, <2>1, <3>1 DEF UseServer, ResultsArrive, Returns, VoiceTypeOK, SelectionOK,
         LiveRecognizerHeld, SpokenSkipsMySQL, setupVars, reviewVars
  <2>2. CASE Found(u.trimmed) = {}
    BY <1>6, <2>2 DEF UseServer, ResultsArrive, Returns, VoiceTypeOK, SelectionOK,
       LiveRecognizerHeld, SpokenSkipsMySQL, setupVars, selectVars, reviewVars
  <2> QED
    BY <2>1, <2>2
<1>7. ASSUME NEW u \in Utterances, CheckStatus(u)
      PROVE  Goal
  <2>1. PICK s \in Servers : CheckTarget(u) = {s}
    BY <1>7, CheckTargetOK DEF CheckStatus
  <2>2. /\ sent' \in [by : {"none", "check", "spoken", "review"}, to : SUBSET Servers]
        /\ SpokenSkipsMySQL'
    BY <1>7, <2>1 DEF CheckStatus, NothingSent, SpokenSkipsMySQL
  <2> QED
    BY <1>7, <2>2 DEF CheckStatus, ResultsArrive, Returns, VoiceTypeOK, SelectionOK,
       LiveRecognizerHeld, setupVars, selectVars, reviewVars
<1>8. ASSUME NEW u \in Utterances, KeepForReview(u)
      PROVE  Goal
  BY <1>8 DEF KeepForReview, ResultsArrive, Returns, VoiceTypeOK, SelectionOK,
     LiveRecognizerHeld, SpokenSkipsMySQL, setupVars, selectVars
<1>9. ASSUME NEW u \in Utterances, ExecuteOnSelected(u)
      PROVE  Goal
  <2>1. CASE selectedServer \in MySQL
    BY <1>9, <2>1 DEF ExecuteOnSelected, ResultsArrive, Returns, RunsToEnd, VoiceTypeOK, SelectionOK,
       LiveRecognizerHeld, SpokenSkipsMySQL, setupVars, selectVars, reviewVars, NothingSent
  <2>2. CASE selectedServer \notin MySQL
    <3>1. /\ sent' = [by |-> "spoken", to |-> {selectedServer}]
          /\ selectedServer \in Servers \ MySQL
      BY <1>9, <2>2 DEF ExecuteOnSelected, SelectionOK
    <3>2. /\ sent' \in [by : {"none", "check", "spoken", "review"}, to : SUBSET Servers]
          /\ SpokenSkipsMySQL'
      BY <3>1 DEF SpokenSkipsMySQL
    <3> QED
      BY <1>9, <2>2, <3>2 DEF ExecuteOnSelected, ResultsArrive, RunsToEnd, VoiceTypeOK, SelectionOK,
         LiveRecognizerHeld, setupVars, selectVars, reviewVars
  <2> QED
    BY <2>1, <2>2
<1>10. ASSUME NEW u \in Utterances, ExecuteOnNamed(u)
       PROVE  Goal
  <2>1. {servers[k] : k \in Reached(u.named)} \subseteq Servers \ MySQL
    BY ReachedOK DEF VoiceTypeOK
  <2>2. /\ sent' \in [by : {"none", "check", "spoken", "review"}, to : SUBSET Servers]
        /\ SpokenSkipsMySQL'
    BY <1>10, <2>1 DEF ExecuteOnNamed, SpokenSkipsMySQL
  <2> QED
    BY <1>10, <2>2 DEF ExecuteOnNamed, ResultsArrive, Returns, RunsToEnd, VoiceTypeOK, SelectionOK,
       LiveRecognizerHeld, setupVars, selectVars, reviewVars
<1>11. CASE UNCHANGED voiceVars
  BY <1>11 DEF voiceVars, VoiceTypeOK, SelectionOK, LiveRecognizerHeld, SpokenSkipsMySQL
<1> QED
  BY <1>1, <1>2, <1>3, <1>4, <1>5, <1>6, <1>7, <1>8, <1>9, <1>10, <1>11
     DEF VoiceNext, Callback, DidFinishWithResults

\* The invariant holds in every reachable state.
THEOREM VoiceInvariant == VoiceSpec => []VoiceInv
<1>1. VoiceInit => VoiceInv
  BY VoiceInitInv
<1>2. VoiceInv /\ [VoiceNext]_voiceVars => VoiceInv'
  BY VoiceNextInv
<1> QED
  BY <1>1, <1>2, PTL DEF VoiceSpec
-----------------------------------------------------------------------------
(***************************************************************************)
(* The properties the runs check.                                          *)
(***************************************************************************)
\* The types of the tab's state, for every list of servers.
THEOREM VoiceTypeCorrect == VoiceSpec => []VoiceTypeOK
<1>1. VoiceInv => VoiceTypeOK
  BY DEF VoiceInv
<1> QED
  BY <1>1, VoiceInvariant, PTL

\* No spoken command or status request reaches a MySQL server, whatever is said
\* and whichever servers are stored (VoiceListenerViewController.m, the tests of
\* the operating system in didFinishWithResults:).
THEOREM SpokenSafe == VoiceSpec => []SpokenSkipsMySQL
<1>1. VoiceInv => SpokenSkipsMySQL
  BY DEF VoiceInv
<1> QED
  BY <1>1, VoiceInvariant, PTL

\* A recognizer at work is held until its last callback, so its results are
\* always delivered to the tab.
THEOREM RecognizerHeld == VoiceSpec => []LiveRecognizerHeld
<1>1. VoiceInv => LiveRecognizerHeld
  BY DEF VoiceInv
<1> QED
  BY <1>1, VoiceInvariant, PTL

\* The reset of the background block discards no selection: no server can be
\* named before the block has loaded the servers, which it does after the reset.
THEOREM SelectionKept == VoiceSpec => SelectionNeverLost
<1>1. VoiceInv /\ [VoiceNext]_voiceVars => [isServerSelected => isServerSelected']_voiceVars
  BY VoiceNextInv
<1> QED
  BY <1>1, VoiceInvariant, PTL DEF VoiceSpec, SelectionNeverLost
-----------------------------------------------------------------------------
(***************************************************************************)
(* What a loop keeps, element by element.                                  *)
(***************************************************************************)
\* An index that a loop keeps has a place of its own in the result: the count
\* of the indexes kept up to it.
LEMMA SublistAt ==
    ASSUME NEW S, NEW s \in Seq(S), NEW I \in SUBSET (1..Len(s)), NEW i \in I
    PROVE  LET k == Cardinality({j \in I : j <= i})
           IN k \in 1..Cardinality(I) /\ Sublist(s, I)[k] = s[i]
<1> DEFINE Upto(m) == {j \in I : j <= m}
           k == Cardinality(Upto(i))
<1>0. Len(s) \in Nat
  BY LenProperties
<1>1. \A j \in I : j \in Int
  BY <1>0
<1>2. IsFiniteSet(I)
  <2>1. IsFiniteSet(1..Len(s))
    BY <1>0, FS_Interval
  <2> QED
    BY <2>1, FS_Subset
<1>3. \A m : Upto(m) \in SUBSET I
  OBVIOUS
<1>4. \A m : IsFiniteSet(Upto(m)) /\ Cardinality(Upto(m)) \in Nat
                /\ Cardinality(Upto(m)) <= Cardinality(I)
  BY <1>2, <1>3, FS_Subset, FS_CardinalityType
<1>5. i \in Upto(i)
  BY <1>1
<1>6. k # 0
  BY <1>4, <1>5, FS_EmptySet
<1>7. k \in 1..Cardinality(I)
  <2>1. Cardinality(I) \in Nat
    BY <1>2, FS_CardinalityType
  <2> HIDE DEF Upto
  <2> QED
    BY <1>4, <1>6, <2>1
<1>8. ASSUME NEW a \in I, NEW b \in I, a < b
      PROVE  Cardinality(Upto(a)) # Cardinality(Upto(b))
  <2>1. Upto(a) \in SUBSET Upto(b)
    <3>1. \A j \in I : j <= a => j <= b
      BY <1>1, <1>8
    <3> QED
      BY <3>1
  <2>2. b \in Upto(b) /\ b \notin Upto(a)
    BY <1>1, <1>8
  <2>3. Upto(a) # Upto(b)
    BY <2>2
  <2> HIDE DEF Upto
  <2> QED
    BY <1>4, <2>1, <2>3, FS_Subset
<1>9. Nth(I, k) = i
  <2>1. \A a \in I : Cardinality(Upto(a)) = k => a = i
    <3> SUFFICES ASSUME NEW a \in I, a # i PROVE Cardinality(Upto(a)) # k
      OBVIOUS
    <3>1. a < i \/ i < a
      BY <1>1
    <3> HIDE DEF Upto
    <3> QED
      BY <1>8, <3>1
  <2> QED
    BY <2>1 DEF Nth
<1> QED
  BY <1>7, <1>9 DEF Sublist

\* What the loop keeps is in the result.
LEMMA SublistRange ==
    ASSUME NEW S, NEW s \in Seq(S), NEW I \in SUBSET (1..Len(s)), NEW i \in I
    PROVE  s[i] \in Range(Sublist(s, I))
<1>1. PICK k : k \in 1..Cardinality(I) /\ Sublist(s, I)[k] = s[i]
  BY SublistAt
<1>2. DOMAIN Sublist(s, I) = 1..Cardinality(I)
  BY DEF Sublist
<1> QED
  BY <1>1, <1>2 DEF Range

\* Of an empty array nothing is kept.
LEMMA SublistEmpty ==
    ASSUME NEW I \in SUBSET (1..0), NEW s
    PROVE  Sublist(s, I) = <<>>
<1>1. I = {}
  OBVIOUS
<1>2. Cardinality(I) = 0
  BY <1>1, FS_EmptySet
<1>3. Sublist(s, I) \in [1..0 -> {}]
  BY <1>2 DEF Sublist
<1>4. Sublist(s, I) \in Seq({}) /\ Len(Sublist(s, I)) = 0
  BY <1>3, FunctionIsSeq
<1> QED
  BY <1>4, EmptySeq

\* The elements of a sequence, by index.
LEMMA ElementsOfSeq ==
    ASSUME NEW S, NEW s \in Seq(S)
    PROVE  /\ Range(s) \subseteq S
           /\ \A k \in 1..Len(s) : s[k] \in Range(s)
           /\ \A x \in Range(s) : \E k \in 1..Len(s) : x = s[k]
<1>1. Len(s) \in Nat /\ DOMAIN s = 1..Len(s)
  BY LenProperties
<1>2. \A x \in Range(s) : \E k \in 1..Len(s) : x = s[k]
  BY <1>1 DEF Range
<1>3. \A k \in 1..Len(s) : s[k] \in Range(s)
  BY <1>1 DEF Range
<1>4. Range(s) \subseteq S
  BY <1>2, ElementOfSeq
<1> QED
  BY <1>2, <1>3, <1>4

\* The empty array has no elements.
LEMMA RangeEmpty ==
    ASSUME NEW S, NEW s \in Seq(S), Len(s) = 0
    PROVE  Range(s) = {}
<1>1. ASSUME NEW x \in Range(s) PROVE FALSE
  <2>1. PICK k \in 1..Len(s) : x = s[k]
    BY ElementsOfSeq
  <2> QED
    BY <2>1
<1> QED
  BY <1>1

\* Appending an element adds it and loses none.
LEMMA RangeOfAppend ==
    ASSUME NEW S, NEW s \in Seq(S), NEW e \in S
    PROVE  Range(s) \cup {e} \subseteq Range(Append(s, e))
<1>1. PICK t : t = Append(s, e)
  OBVIOUS
<1>2. /\ t \in Seq(S) /\ Len(t) = Len(s) + 1
      /\ \A i \in 1..Len(s) : t[i] = s[i]
      /\ t[Len(s) + 1] = e
  BY <1>1, AppendProperties
<1>3. Len(s) \in Nat
  BY LenProperties
<1>4. Len(s) + 1 \in 1..Len(t) /\ \A i \in 1..Len(s) : i \in 1..Len(t)
  BY <1>2, <1>3
<1>5. e \in Range(t)
  BY <1>2, <1>4, ElementsOfSeq
<1>6. ASSUME NEW x \in Range(s) PROVE x \in Range(t)
  <2>1. PICK k \in 1..Len(s) : x = s[k]
    BY ElementsOfSeq
  <2>2. k \in 1..Len(t) /\ x = t[k]
    BY <2>1, <1>2, <1>4
  <2> QED
    BY <2>2, <1>2, ElementsOfSeq
<1> QED
  BY <1>1, <1>5, <1>6

\* A concatenation holds the elements of both parts.
LEMMA RangeOfConcat ==
    ASSUME NEW S, NEW s \in Seq(S), NEW t \in Seq(S)
    PROVE  Range(s) \subseteq Range(s \o t) /\ Range(t) \subseteq Range(s \o t)
<1>1. PICK u : u = s \o t
  OBVIOUS
<1>2. /\ u \in Seq(S) /\ Len(u) = Len(s) + Len(t)
      /\ \A i \in 1..Len(s) + Len(t) : u[i] = IF i <= Len(s) THEN s[i] ELSE t[i - Len(s)]
  BY <1>1, ConcatProperties
<1>3. Len(s) \in Nat /\ Len(t) \in Nat
  BY LenProperties
<1>4. ASSUME NEW x \in Range(s) PROVE x \in Range(u)
  <2>1. PICK k \in 1..Len(s) : x = s[k]
    BY ElementsOfSeq
  <2>2. k \in 1..Len(u) /\ u[k] = s[k]
    BY <1>2, <1>3
  <2> QED
    BY <1>2, <2>1, <2>2, ElementsOfSeq
<1>5. ASSUME NEW x \in Range(t) PROVE x \in Range(u)
  <2>1. PICK k \in 1..Len(t) : x = t[k]
    BY ElementsOfSeq
  <2>2. k + Len(s) \in 1..Len(u) /\ u[k + Len(s)] = t[k]
    <3>1. PICK m : m = k + Len(s)
      OBVIOUS
    <3>2. m \in 1..Len(s) + Len(t) /\ ~(m <= Len(s)) /\ m - Len(s) = k
      BY <1>3, <3>1
    <3> QED
      BY <1>2, <3>1, <3>2
  <2> QED
    BY <1>2, <2>1, <2>2, ElementsOfSeq
<1> QED
  BY <1>1, <1>4, <1>5

\* The first element and the others are all there is.
LEMMA RangeOfHeadTail ==
    ASSUME NEW S, NEW s \in Seq(S), s # <<>>
    PROVE  Range(s) \subseteq {Head(s)} \cup Range(Tail(s))
<1>1. PICK t : t = Tail(s)
  OBVIOUS
<1>2. t \in Seq(S) /\ Len(t) = Len(s) - 1 /\ \A i \in 1..Len(t) : t[i] = s[i + 1]
  BY <1>1, HeadTailProperties
<1>3. Len(s) \in Nat /\ Len(t) \in Nat
  BY <1>2, LenProperties
<1>4. Head(s) = s[1]
  OBVIOUS
<1>5. ASSUME NEW x \in Range(s), x # s[1] PROVE x \in Range(t)
  <2>1. PICK k \in 1..Len(s) : x = s[k]
    BY ElementsOfSeq
  <2>2. k - 1 \in 1..Len(t) /\ t[k - 1] = s[k]
    BY <1>2, <1>3, <1>5, <2>1
  <2> QED
    BY <1>2, <2>1, <2>2, ElementsOfSeq
<1> QED
  BY <1>1, <1>4, <1>5
-----------------------------------------------------------------------------
(***************************************************************************)
(* The listings.  A word of the table is a word of the catalogue or one of *)
(* the other first words; a line may also be the second of an entry.       *)
(***************************************************************************)
Line == Words \cup {Continued}

\* A package's own line is not the rest of another one's, and is no other word.
LEMMA PackageLine ==
    ASSUME NEW p \in Packages
    PROVE  p \in Words /\ p \in Line /\ p # Empty /\ p # Continued /\ Word(p) = p
<1>1. Packages \cap {Header, Refusal, Empty, Continued, Garbled, Prompted} = {}
  BY CatalogAssumption DEF CatalogAssumption
<1>2. p # Empty /\ p # Continued
  BY <1>1
<1> QED
  BY <1>2 DEF Words, Line, Word

\* Every line has a first word.
LEMMA WordType == \A l \in Line : Word(l) \in Words
BY DEF Word, Words, Line

\* The other lines are lines.
LEMMA OtherLines == /\ Header \in Line /\ Refusal \in Line /\ Empty \in Line
                    /\ Continued \in Line /\ Packages \subseteq Line
                    /\ Garbled \in Words /\ Prompted \in Line /\ Header # Empty /\ Words \subseteq Line
BY DEF Words, Line, Header, Empty

\* The catalogue's packages that are in S are listed, and no others.
LEMMA InOrderOK ==
    ASSUME NEW S \in SUBSET Packages
    PROVE  InOrder(S) \in Seq(Packages) /\ S \subseteq Range(InOrder(S))
<1> DEFINE I == {k \in 1..Len(Catalog) : Catalog[k] \in S}
<1>1. Catalog \in Seq(Packages)
  BY CatalogAssumption DEF CatalogAssumption
<1>2. I \in SUBSET (1..Len(Catalog))
  OBVIOUS
<1>3. InOrder(S) = Sublist(Catalog, I)
  BY DEF InOrder
<1>4. ASSUME NEW p \in S PROVE p \in Range(Sublist(Catalog, I))
  <2>1. p \in Range(Catalog)
    BY DEF Packages
  <2>2. PICK k \in 1..Len(Catalog) : p = Catalog[k]
    BY <1>1, <2>1, ElementsOfSeq
  <2>3. k \in I
    BY <2>2
  <2> HIDE DEF I
  <2> QED
    BY <1>1, <1>2, <2>2, <2>3, SublistRange
<1> HIDE DEF I
<1> QED
  BY <1>1, <1>2, <1>3, <1>4, SublistType

\* Every package listed has a line of yum's output of its own, wrapped or not.
LEMMA EntriesOK ==
    ASSUME NEW listed \in Seq(Packages)
    PROVE  Entries(listed) \in Seq(Line) /\ Range(listed) \subseteq Range(Entries(listed))
<1> DEFINE n == 2 * Len(listed)
           both == [j \in 1..n |-> IF j % 2 = 1 THEN listed[(j + 1) \div 2] ELSE Continued]
           I == {j \in 1..n : j % 2 = 1 \/ both[j - 1] \in Wrapped}
<1>1. Len(listed) \in Nat /\ \A k \in 1..Len(listed) : listed[k] \in Packages
  BY LenProperties, ElementOfSeq
<1>2. n \in Nat
  BY <1>1
<1>3. \A j \in 1..n : j % 2 = 1 => (j + 1) \div 2 \in 1..Len(listed)
  BY <1>1
<1>4. both \in [1..n -> Line]
  BY <1>1, <1>3, OtherLines
<1>5. both \in Seq(Line) /\ Len(both) = n
  <2> HIDE DEF both, n
  <2> QED
    BY <1>2, <1>4, FunctionIsSeq
<1>6. I \in SUBSET (1..Len(both))
  <2>1. I \in SUBSET (1..n)
    OBVIOUS
  <2> HIDE DEF I, both, n
  <2> QED
    BY <2>1, <1>5
<1>7. ASSUME NEW p \in Range(listed) PROVE p \in Range(Sublist(both, I))
  <2>1. PICK k \in 1..Len(listed) : p = listed[k]
    BY ElementsOfSeq
  <2>2. PICK j : j = 2 * k - 1
    OBVIOUS
  <2>3. j \in 1..n /\ j % 2 = 1 /\ (j + 1) \div 2 = k
    BY <1>1, <2>2
  <2>4. j \in I /\ both[j] = p
    BY <2>1, <2>3
  <2> HIDE DEF I, both, n
  <2> QED
    BY <1>5, <1>6, <2>4, SublistRange
<1>8. Entries(listed) = Sublist(both, I)
  BY DEF Entries
<1> HIDE DEF I, both, n
<1> QED
  BY <1>5, <1>6, <1>7, <1>8, SublistType

\* A response is a sequence of lines, whichever screen asks.
LEMMA ResponseType ==
    ASSUME TypeOK, NEW present \in SUBSET Packages
    PROVE  Response(present) \in Seq(Line)
<1> DEFINE listed == InOrder(ToList(present))
           yum == screen \in YumScreens
<1>1. ToList(present) \in SUBSET Packages
  BY DEF ToList
<1>2. listed \in Seq(Packages)
  BY <1>1, InOrderOK
<1>3. listed \in Seq(Line) /\ Entries(listed) \in Seq(Line)
  <2> HIDE DEF listed
  <2> QED
    BY <1>2, EntriesOK, SeqMonotonic, OtherLines
<1>4. <<Empty>> \in Seq(Line) /\ <<Refusal, Empty>> \in Seq(Line) /\ <<Header, Header>> \in Seq(Line)
  BY OtherLines
<1>5. PICK e : e = Entries(listed)
  OBVIOUS
<1>6. /\ listed \o <<Empty>> \in Seq(Line)
      /\ <<Header, Header>> \o e \o <<Empty>> \in Seq(Line)
  <2> HIDE DEF listed
  <2> QED
    BY <1>3, <1>4, <1>5, ConcatProperties
<1>7. PICK plain : plain = listed \o <<Empty>>
  OBVIOUS
<1>8. plain \in Seq(Line) /\ [plain EXCEPT ![1] = Prompted] \in Seq(Line)
  <2>1. plain \in Seq(Line)
    BY <1>6, <1>7
  <2>2. Prompted \in Line
    BY OtherLines
  <2>3. 1 \in 1..Len(plain)
    <3>1. Len(listed) \in Nat /\ Len(<<Empty>>) = 1 /\ <<Empty>> \in Seq(Line)
      BY <1>3, OtherLines, LenProperties
    <3>2. Len(plain) = Len(listed) + Len(<<Empty>>)
      BY <1>3, <1>7, <3>1, ConcatProperties
    <3> QED
      BY <3>1, <3>2
  <2> QED
    BY <2>1, <2>2, <2>3, ExceptSeq
<1>9. sudoer \in BOOLEAN /\ requestPty \in BOOLEAN
  BY DEF TypeOK
<1>10. Response(present) =
          CASE ~sudoer /\ (yum \/ requestPty) -> <<Refusal, Empty>>
            [] ~sudoer /\ ~(yum \/ requestPty) -> <<Empty>>
            [] sudoer /\ yum -> <<Header, Header>> \o e \o <<Empty>>
            [] sudoer /\ ~yum /\ ~requestPty -> plain
            [] sudoer /\ ~yum /\ requestPty -> [plain EXCEPT ![1] = Prompted]
  BY <1>5, <1>7 DEF Response
<1> HIDE DEF listed, yum
<1>11. CASE ~sudoer /\ (yum \/ requestPty)
  BY <1>4, <1>10, <1>11
<1>12. CASE ~sudoer /\ ~(yum \/ requestPty)
  BY <1>4, <1>10, <1>12
<1>13. CASE sudoer /\ yum
  BY <1>6, <1>10, <1>13
<1>14. CASE sudoer /\ ~yum /\ ~requestPty
  BY <1>8, <1>10, <1>14
<1>15. CASE sudoer /\ ~yum /\ requestPty
  BY <1>8, <1>10, <1>15
<1> QED
  BY <1>11, <1>12, <1>13, <1>14, <1>15

\* Only an empty line is taken out.
LEMMA WithoutEmptyOK ==
    ASSUME NEW S, NEW l \in Seq(S)
    PROVE  /\ WithoutEmpty(l) \in Seq(S)
           /\ \A x \in Range(l) : x # Empty => x \in Range(WithoutEmpty(l))
<1> DEFINE I == (1..Len(l)) \ FirstEmpty(l)
<1>1. I \in SUBSET (1..Len(l)) /\ WithoutEmpty(l) = Sublist(l, I)
  BY DEF WithoutEmpty
<1>2. ASSUME NEW x \in Range(l), x # Empty PROVE x \in Range(Sublist(l, I))
  <2>1. PICK k \in 1..Len(l) : x = l[k]
    BY ElementsOfSeq
  <2>2. k \in I
    BY <1>2, <2>1 DEF FirstEmpty
  <2> HIDE DEF I
  <2> QED
    BY <1>1, <2>1, <2>2, SublistRange
<1> HIDE DEF I
<1> QED
  BY <1>1, <1>2, SublistType

\* After two lines that are not empty, what is not empty stays after the first
\* two: dropping the banner drops no package.
LEMMA BannerDropped ==
    ASSUME NEW S, NEW l \in Seq(S), Len(l) >= 2, l[1] # Empty, l[2] # Empty,
           NEW i \in 3..Len(l), l[i] # Empty
    PROVE  LET tmp == WithoutEmpty(l)
           IN l[i] \in Range(SubSeq(tmp, Banner + 1, Len(tmp)))
<1> DEFINE I == (1..Len(l)) \ FirstEmpty(l)
           Upto == {j \in I : j <= i}
<1>0. Len(l) \in Nat /\ i \in Int /\ 3 <= i /\ i <= Len(l)
  BY LenProperties
<1>1. I \in SUBSET (1..Len(l))
  OBVIOUS
<1>2. 1 \in I /\ 2 \in I /\ i \in I
  BY <1>0 DEF FirstEmpty
<1>T. PICK T : T = {1} \cup {2} \cup {i}
  OBVIOUS
<1>3. T \in SUBSET Upto
  BY <1>0, <1>2, <1>T
<1>4. IsFiniteSet(T) /\ Cardinality(T) = 3
  <2>1. PICK A : A = {1}
    OBVIOUS
  <2>2. PICK B : B = A \cup {2}
    OBVIOUS
  <2>3. IsFiniteSet(A) /\ Cardinality(A) = 1
    BY <2>1, FS_Singleton
  <2>4. 2 \notin A
    BY <2>1
  <2>5. IsFiniteSet(B) /\ Cardinality(B) = 2
    BY <2>2, <2>3, <2>4, FS_AddElement
  <2>6. i \notin B /\ T = B \cup {i}
    BY <1>0, <1>T, <2>1, <2>2
  <2> QED
    BY <2>5, <2>6, FS_AddElement
<1>5. PICK k : k = Cardinality(Upto)
  OBVIOUS
<1>6. IsFiniteSet(Upto)
  <2>1. IsFiniteSet(1..Len(l))
    BY <1>0, FS_Interval
  <2>2. Upto \in SUBSET (1..Len(l))
    OBVIOUS
  <2> QED
    BY <2>1, <2>2, FS_Subset
<1>7. 3 <= k
  <2>1. Cardinality(T) <= Cardinality(Upto)
    BY <1>3, <1>6, FS_Subset
  <2> QED
    BY <1>4, <1>5, <2>1
<1>8. PICK tmp : tmp = WithoutEmpty(l)
  OBVIOUS
<1>9. tmp = Sublist(l, I)
  BY <1>8 DEF WithoutEmpty
<1>10. k \in 1..Cardinality(I) /\ tmp[k] = l[i]
  <2>1. Cardinality(Upto) \in 1..Cardinality(I) /\ Sublist(l, I)[Cardinality(Upto)] = l[i]
    <3> HIDE DEF I
    <3> QED
      BY <1>1, <1>2, SublistAt
  <2> QED
    BY <1>5, <1>9, <2>1
<1>11. tmp \in Seq(S) /\ DOMAIN tmp = 1..Cardinality(I)
  <2> HIDE DEF I
  <2> QED
    BY <1>1, <1>9, SublistType DEF Sublist
<1>12. k \in 1..Len(tmp) /\ Len(tmp) \in Nat
  BY <1>10, <1>11, LenProperties
<1>13. PICK rest : rest = SubSeq(tmp, 3, Len(tmp))
  OBVIOUS
<1>14. /\ rest \in Seq(S)
       /\ Len(rest) = IF 3 <= Len(tmp) THEN Len(tmp) - 3 + 1 ELSE 0
       /\ \A j \in 1..Len(tmp) - 3 + 1 : rest[j] = tmp[3 + j - 1]
  <2>1. \A j \in 3..Len(tmp) : tmp[j] \in S
    <3>1. \A j \in 3..Len(tmp) : j \in 1..Len(tmp)
      BY <1>12
    <3> QED
      BY <1>11, <3>1, ElementOfSeq
  <2>2. 3 \in Int /\ Len(tmp) \in Int
    BY <1>12
  <2> QED
    BY <1>13, <2>1, <2>2, SubSeqProperties
<1>15. PICK j : j = k - 2
  OBVIOUS
<1>16. j \in 1..Len(rest) /\ rest[j] = tmp[k]
  <2>1. j \in 1..Len(tmp) - 3 + 1 /\ 3 + j - 1 = k /\ 3 <= Len(tmp)
    BY <1>7, <1>12, <1>15
  <2> QED
    BY <1>14, <2>1
<1>17. l[i] \in Range(rest)
  BY <1>10, <1>14, <1>16, ElementsOfSeq
<1> QED
  BY <1>8, <1>13, <1>17 DEF Banner

\* With yum two header lines come first, and every package the screen lists is
\* on a later line.
LEMMA YumResponse ==
    ASSUME NEW present \in SUBSET Packages, sudoer = TRUE,
           screen \in {"YumListInstalled", "YumInstallNew"},
           NEW p \in ToList(present)
    PROVE  LET r == Response(present)
           IN /\ Len(r) >= 2 /\ r[1] = Header /\ r[2] = Header
              /\ \E i \in 3..Len(r) : r[i] = p
<1>1. ToList(present) \in SUBSET Packages
  BY DEF ToList
<1>2. PICK listed : listed = InOrder(ToList(present))
  OBVIOUS
<1>3. listed \in Seq(Packages) /\ p \in Range(listed)
  BY <1>1, <1>2, InOrderOK
<1>4. PICK e : e = Entries(listed)
  OBVIOUS
<1>5. e \in Seq(Line) /\ p \in Range(e)
  BY <1>3, <1>4, EntriesOK
<1>6. PICK m \in 1..Len(e) : p = e[m]
  BY <1>5, ElementsOfSeq
<1>7. PICK h : h = <<Header, Header>>
  OBVIOUS
<1>8. h \in Seq(Line) /\ Len(h) = 2 /\ h[1] = Header /\ h[2] = Header
  BY <1>7, OtherLines
<1>9. PICK c : c = <<Empty>>
  OBVIOUS
<1>10. c \in Seq(Line) /\ Len(c) = 1
  BY <1>9, OtherLines
<1>11. PICK he : he = h \o e
  OBVIOUS
<1>12. /\ he \in Seq(Line) /\ Len(he) = Len(h) + Len(e)
       /\ \A i \in 1..Len(h) + Len(e) : he[i] = IF i <= Len(h) THEN h[i] ELSE e[i - Len(h)]
  BY <1>5, <1>8, <1>11, ConcatProperties
<1>he. he \in Seq(Line)
  BY <1>12
<1>13. PICK r : r = he \o c
  OBVIOUS
<1>14. /\ r \in Seq(Line) /\ Len(r) = Len(he) + Len(c)
       /\ \A i \in 1..Len(he) + Len(c) : r[i] = IF i <= Len(he) THEN he[i] ELSE c[i - Len(he)]
  BY <1>10, <1>he, <1>13, ConcatProperties
<1>15. Len(e) \in Nat
  BY <1>5, LenProperties
<1>16. Response(present) = r
  BY <1>2, <1>4, <1>7, <1>9, <1>11, <1>13 DEF Response, YumScreens
<1>17. Len(he) = 2 + Len(e) /\ Len(r) = 3 + Len(e)
  BY <1>8, <1>10, <1>12, <1>14, <1>15
<1>18. \A i \in 1..2 + Len(e) : r[i] = he[i]
  BY <1>10, <1>14, <1>15, <1>17
<1>19. r[1] = h[1] /\ r[2] = h[2]
  BY <1>8, <1>12, <1>15, <1>18
<1>20. PICK i : i = m + 2
  OBVIOUS
<1>21. i \in 3..Len(r) /\ i \in 1..2 + Len(e) /\ ~(i <= 2) /\ i - 2 = m
  BY <1>15, <1>17, <1>20
<1>22. r[i] = p
  BY <1>6, <1>8, <1>12, <1>18, <1>21
<1>23. Len(r) >= 2
  BY <1>15, <1>17
<1> QED
  BY <1>8, <1>16, <1>19, <1>21, <1>22, <1>23

\* With apt and without a terminal the lines are the packages and the line after
\* the last line break.
LEMMA AptResponse ==
    ASSUME NEW present \in SUBSET Packages, sudoer = TRUE,
           screen \notin {"YumListInstalled", "YumInstallNew"}, requestPty = FALSE,
           NEW p \in ToList(present)
    PROVE  p \in Range(Response(present))
<1>1. ToList(present) \in SUBSET Packages
  BY DEF ToList
<1>2. PICK listed : listed = InOrder(ToList(present))
  OBVIOUS
<1>3. listed \in Seq(Packages) /\ p \in Range(listed)
  BY <1>1, <1>2, InOrderOK
<1>4. listed \in Seq(Line)
  BY <1>3, SeqMonotonic, OtherLines
<1>5. <<Empty>> \in Seq(Line)
  BY OtherLines
<1>6. p \in Range(listed \o <<Empty>>)
  BY <1>3, <1>4, <1>5, RangeOfConcat
<1>7. Response(present) = listed \o <<Empty>>
  BY <1>2 DEF Response, YumScreens
<1> QED
  BY <1>6, <1>7

\* sudo lets the listing through and does not write into it.
Whole == sudoer /\ (screen \in YumScreens \/ ~requestPty)

\* Every package the screen lists is on a line the loop runs over: no screen
\* drops a package with the banner or with the empty line.
LEMMA StrippedOK ==
    ASSUME TypeOK
    PROVE  /\ Stripped \in Seq(Line)
           /\ Whole => ToList(installed) \subseteq Range(Stripped)
<1>1. installed \in SUBSET Packages
  BY DEF TypeOK
<1>2. PICK r : r = Response(installed)
  OBVIOUS
<1>3. r \in Seq(Line)
  BY <1>1, <1>2, ResponseType
<1>4. PICK tmp : tmp = WithoutEmpty(r)
  OBVIOUS
<1>5. tmp \in Seq(Line) /\ \A x \in Range(r) : x # Empty => x \in Range(tmp)
  BY <1>3, <1>4, WithoutEmptyOK
<1>6. \A q \in ToList(installed) : q \in Packages /\ q # Empty
  <2>1. ToList(installed) \subseteq Packages
    BY <1>1 DEF ToList
  <2> QED
    BY <2>1, PackageLine
<1>7. PICK rest : rest = SubSeq(tmp, Banner + 1, Len(tmp))
  OBVIOUS
<1>8. rest \in Seq(Line)
  <2>1. Len(tmp) \in Nat /\ Banner + 1 \in Int /\ Banner + 1 = 3
    BY <1>5, LenProperties DEF Banner
  <2>2. \A j \in 3..Len(tmp) : j \in 1..Len(tmp)
    BY <2>1
  <2>3. \A j \in 3..Len(tmp) : tmp[j] \in Line
    BY <1>5, <2>2, ElementOfSeq
  <2>4. 3 \in Int /\ Len(tmp) \in Int
    BY <2>1
  <2>5. SubSeq(tmp, 3, Len(tmp)) \in Seq(Line)
    BY <2>3, <2>4, SubSeqProperties
  <2> QED
    BY <1>7, <2>1, <2>5
<1>12. Whole => /\ sudoer = TRUE
                /\ screen \notin {"YumListInstalled", "YumInstallNew"} => requestPty = FALSE
  BY DEF Whole, YumScreens, TypeOK
<1>9. CASE screen = "YumListInstalled"
  <2>1. Stripped = rest
    BY <1>2, <1>4, <1>7, <1>9 DEF Stripped
  <2>2. ASSUME Whole, NEW p \in ToList(installed) PROVE p \in Range(rest)
    <3>1. screen \in {"YumListInstalled", "YumInstallNew"}
      BY <1>9
    <3>2. Len(r) >= 2 /\ r[1] = Header /\ r[2] = Header /\ \E i \in 3..Len(r) : r[i] = p
      BY <1>1, <1>2, <1>12, <2>2, <3>1, YumResponse
    <3>3. PICK i \in 3..Len(r) : r[i] = p
      BY <3>2
    <3>4. r[1] # Empty /\ r[2] # Empty /\ r[i] # Empty
      BY <1>6, <3>2, <3>3, OtherLines
    <3>5. r[i] \in Range(SubSeq(WithoutEmpty(r), Banner + 1, Len(WithoutEmpty(r))))
      BY <1>3, <3>2, <3>4, BannerDropped
    <3> QED
      BY <1>4, <1>7, <3>3, <3>5
  <2> QED
    BY <1>8, <2>1, <2>2
<1>10. CASE screen = "AptGetInstallNew"
  <2>1. Stripped = tmp
    BY <1>2, <1>4, <1>10 DEF Stripped
  <2>2. ASSUME Whole, NEW p \in ToList(installed) PROVE p \in Range(tmp)
    <3>1. screen \notin {"YumListInstalled", "YumInstallNew"}
      BY <1>10
    <3>2. p \in Range(r)
      BY <1>1, <1>2, <1>12, <2>2, <3>1, AptResponse
    <3> QED
      BY <1>5, <1>6, <3>2
  <2> QED
    BY <1>5, <2>1, <2>2
<1>11. CASE screen \notin {"YumListInstalled", "AptGetInstallNew"}
  <2>1. Stripped = r
    BY <1>2, <1>11 DEF Stripped
  <2>2. ASSUME Whole, NEW p \in ToList(installed) PROVE p \in Range(r)
    <3>1. CASE screen = "YumInstallNew"
      <4>1. screen \in {"YumListInstalled", "YumInstallNew"}
        BY <3>1
      <4>2. Len(r) >= 2 /\ \E i \in 3..Len(r) : r[i] = p
        BY <1>1, <1>2, <1>12, <2>2, <4>1, YumResponse
      <4>3. PICK i \in 3..Len(r) : r[i] = p
        BY <4>2
      <4>4. i \in 1..Len(r)
        BY <1>3, LenProperties
      <4> QED
        BY <1>3, <4>3, <4>4, ElementsOfSeq
    <3>2. CASE screen # "YumInstallNew"
      <4>1. screen \notin {"YumListInstalled", "YumInstallNew"}
        BY <1>11, <3>2
      <4> QED
        BY <1>1, <1>2, <1>12, <2>2, <4>1, AptResponse
    <3> QED
      BY <3>1, <3>2
  <2> QED
    BY <1>3, <2>1, <2>2
<1> QED
  BY <1>9, <1>10, <1>11

\* The rows of a refresh are words.
LEMMA RefreshedType ==
    ASSUME TypeOK, NEW present \in SUBSET Packages
    PROVE  RefreshedRows(present) \in Seq(Words)
<1>1. PICK tmp : tmp = WithoutEmpty(Response(present))
  OBVIOUS
<1>2. tmp \in Seq(Line)
  BY <1>1, ResponseType, WithoutEmptyOK
<1>3. PICK kept : kept = SubSeq(tmp, 2, Len(tmp))
  OBVIOUS
<1>4. kept \in Seq(Line)
  <2>1. Len(tmp) \in Nat
    BY <1>2, LenProperties
  <2>2. \A j \in 2..Len(tmp) : j \in 1..Len(tmp)
    BY <2>1
  <2>3. \A j \in 2..Len(tmp) : tmp[j] \in Line
    BY <1>2, <2>2, ElementOfSeq
  <2>4. 2 \in Int /\ Len(tmp) \in Int
    BY <2>1
  <2> QED
    BY <1>3, <2>3, <2>4, SubSeqProperties
<1>5. Len(kept) \in Nat /\ \A k \in 1..Len(kept) : kept[k] \in Line
  BY <1>4, LenProperties, ElementOfSeq
<1>6. \A k \in 1..Len(kept) : Word(kept[k]) \in Words
  BY <1>5, WordType
<1>7. RefreshedRows(present)
        = [k \in 1..Len(kept) |-> IF kept[k] \in Wrapped THEN Garbled ELSE Word(kept[k])]
  BY <1>1, <1>3 DEF RefreshedRows
<1>8. RefreshedRows(present) \in [1..Len(kept) -> Words]
  BY <1>6, <1>7, OtherLines
<1> QED
  BY <1>5, <1>8, FunctionIsSeq

\* A search keeps rows of the table, and none of an empty one.
LEMMA MatchingOK ==
    ASSUME NEW l \in Seq(Words), NEW M
    PROVE  Matching(l, M) \in Seq(Words) /\ (Matching(l, M) # <<>> => l # <<>>)
<1> DEFINE I == {k \in 1..Len(l) : l[k] \in M}
<1>1. I \in SUBSET (1..Len(l)) /\ Matching(l, M) = Sublist(l, I)
  BY DEF Matching
<1> HIDE DEF I
<1>2. Sublist(l, I) \in Seq(Words)
  BY <1>1, SublistType
<1>3. Len(l) = 0 => Sublist(l, I) = <<>>
  <2> HAVE Len(l) = 0
  <2>1. I \in SUBSET (1..0)
    BY <1>1
  <2> QED
    BY <2>1, SublistEmpty
<1>4. l = <<>> => Len(l) = 0
  BY EmptySeq
<1> QED
  BY <1>1, <1>2, <1>3, <1>4
-----------------------------------------------------------------------------
(***************************************************************************)
(* The package screens' inductive invariant.                               *)
(***************************************************************************)
\* The overlay is up while the block works, and the table is empty until the
\* listing has been answered.
LoadOK ==
    /\ loader \in {"list", "parse", "notify"} => hud = "on"
    /\ loader = "start" => hud = "off" /\ daSoftwares = <<>> /\ filteredSoftwares = <<>>
    /\ loader = "list" => daSoftwares = <<>>

\* An alert is about a row of a table that the block no longer writes; unless a
\* search came in between, the row is still what the alert names.
AlertsOK ==
    /\ main \in {"deferred", "alert", "command"} => loader = "done" /\ daSoftwares # <<>>
    /\ main \in {"deferred", "alert"} /\ ~sel.searched =>
           sel.tag <= Len(CurrentList) /\ CurrentList[sel.tag] = sel.title
    /\ main = "command" => sel.verb \in Offers

\* Only rows of a table that is not empty are found.
FilterOK == filteredSoftwares # <<>> => daSoftwares # <<>>

\* The count the table read last is not beyond the array of the moment.
RowsOK == rows <= Len(CurrentList)

\* No package that is shown is lost between the answer of the server and the table.
ListedOK ==
    Whole =>
        /\ loader = "parse" =>
               Shown(installed) \subseteq Range(daSoftwares) \cup Range(lines)
        /\ loader \in {"notify", "done"} /\ screen # NoScreen =>
               daSoftwares = <<>> \/ Shown(installed) \subseteq Range(daSoftwares)

PackageInv ==
    /\ TypeOK /\ LoadOK /\ AlertsOK /\ FilterOK /\ RowsOK /\ ListedOK
    /\ CommandNamesAlertedPackage

\* The array of the moment is a sequence of words, and an empty one has no row.
LEMMA CurrentListOK ==
    ASSUME TypeOK, FilterOK
    PROVE  /\ CurrentList \in Seq(Words) /\ Len(CurrentList) \in Nat
           /\ daSoftwares = <<>> => Len(CurrentList) = 0
           /\ \A k \in Nat \ {0} : k <= Len(CurrentList) => CurrentList[k] \in Words
<1>1. CurrentList \in Seq(Words)
  BY DEF TypeOK, CurrentList
<1>2. Len(CurrentList) \in Nat
  BY <1>1, LenProperties
<1>3. daSoftwares = <<>> => Len(CurrentList) = 0
  <2> HAVE daSoftwares = <<>>
  <2>1. CurrentList = <<>>
    BY DEF CurrentList, FilterOK
  <2> QED
    BY <2>1, EmptySeq
<1>4. ASSUME NEW k \in Nat \ {0}, k <= Len(CurrentList) PROVE CurrentList[k] \in Words
  <2>1. k \in 1..Len(CurrentList)
    BY <1>2, <1>4
  <2> QED
    BY <1>1, <2>1, ElementOfSeq
<1> QED
  BY <1>1, <1>2, <1>3, <1>4

\* The list of package managers, before a screen is opened.
LEMMA PackageInit == ASSUME Init PROVE PackageInv
<1>1. <<>> \in Seq(Words) /\ <<>> \in Seq(Words \cup {Continued}) /\ Len(<<>>) = 0
  BY EmptySeq
<1>2. removals \in 0..MaxRemovals
  <2>1. MaxRemovals \in Nat /\ removals = 0
    BY CatalogAssumption DEF CatalogAssumption, Init
  <2> QED
    BY <2>1
<1>3. sel \in [tag : Nat \ {0}, title : Words, searched : BOOLEAN, verb : Verbs, name : Words]
  <2>1. Empty \in Words /\ "install" \in Verbs /\ 1 \in Nat \ {0}
    BY DEF Words, Verbs
  <2> QED
    BY <2>1 DEF Init, NoAlert
<1>4. selected \in 0..rows /\ rows \in Nat
  BY DEF Init
<1>5. TypeOK
  BY <1>1, <1>2, <1>3, <1>4 DEF Init, TypeOK
<1>6. LoadOK /\ AlertsOK /\ FilterOK /\ CommandNamesAlertedPackage
  BY DEF Init, LoadOK, AlertsOK, FilterOK, CommandNamesAlertedPackage
<1>7. RowsOK
  BY <1>1 DEF Init, RowsOK, CurrentList
<1>8. ListedOK
  BY DEF Init, ListedOK
<1> QED
  BY <1>5, <1>6, <1>7, <1>8 DEF PackageInv

\* A step that moves only the main thread, and to no alert it was not at.
LEMMA MainOnly ==
    ASSUME PackageInv,
           UNCHANGED <<serverVars, removals, screen, loadVars, listVars, tableVars, sel>>,
           \/ main' \in {"select", "yum", "apt-get", "idle", "crashed"}
           \/ main = "deferred" /\ main' = "alert"
    PROVE  PackageInv'
<1> USE DEF PackageInv, serverVars, loadVars, listVars, tableVars
<1>1. TypeOK'
  BY DEF TypeOK
<1>2. CurrentList' = CurrentList /\ Offers' = Offers /\ Shown(installed)' = Shown(installed) /\ (Whole' <=> Whole)
  BY DEF CurrentList, Offers, ToList, Shown, Whole
<1>3. LoadOK' /\ FilterOK' /\ RowsOK' /\ ListedOK'
  BY <1>2 DEF LoadOK, FilterOK, RowsOK, ListedOK
<1>4. AlertsOK' /\ CommandNamesAlertedPackage'
  BY <1>2 DEF AlertsOK, CommandNamesAlertedPackage
<1> QED
  BY <1>1, <1>3, <1>4

\* A reload leaves a count that fits and no selection.
LEMMA ReloadOK ==
    ASSUME Reload, daSoftwares' \in Seq(Words), filteredSoftwares' \in Seq(Words)
    PROVE  rows' \in Nat /\ selected' \in 0..rows' /\ RowsOK'
<1>1. CurrentList' \in Seq(Words)
  BY DEF CurrentList
<1>2. Len(CurrentList') \in Nat
  BY <1>1, LenProperties
<1>3. rows' = Len(CurrentList') /\ selected' = 0
  BY DEF Reload
<1>4. rows' \in Nat /\ rows' <= Len(CurrentList')
  BY <1>2, <1>3
<1>5. selected' \in 0..rows'
  BY <1>3, <1>4
<1> QED
  BY <1>4, <1>5 DEF RowsOK

\* A screen starts with an empty table and no overlay.
LEMMA OpenInv ==
    ASSUME PackageInv, NEW what \in {"new", "installed"}, Open(what)
    PROVE  PackageInv'
<1> USE DEF PackageInv, serverVars
<1>1. <<>> \in Seq(Words) /\ <<>> \in Seq(Words \cup {Continued}) /\ Len(<<>>) = 0
  BY EmptySeq
<1>2. sel' \in [tag : Nat \ {0}, title : Words, searched : BOOLEAN, verb : Verbs, name : Words]
  <2>1. Empty \in Words /\ "install" \in Verbs /\ 1 \in Nat \ {0}
    BY DEF Words, Verbs
  <2> QED
    BY <2>1 DEF Open, NoAlert
<1>3. selected' \in 0..rows' /\ rows' \in Nat
  BY DEF Open
<1>4. screen' \in Screens
  BY DEF Open, ScreenOf, Managers, Screens, InstalledScreens, NewScreens
<1>5. TypeOK'
  BY <1>1, <1>2, <1>3, <1>4 DEF Open, TypeOK
<1>6. LoadOK' /\ AlertsOK' /\ FilterOK' /\ CommandNamesAlertedPackage'
  BY DEF Open, LoadOK, AlertsOK, FilterOK, CommandNamesAlertedPackage
<1>7. RowsOK'
  BY <1>1 DEF Open, RowsOK, CurrentList
<1>8. ListedOK'
  BY DEF Open, ListedOK
<1> QED
  BY <1>5, <1>6, <1>7, <1>8

\* The block empties a table that is empty already, so the rows the table counts
\* stay in range though the filter may be switched off under it.
LEMMA LoadBeginInv == ASSUME PackageInv, LoadBegin PROVE PackageInv'
<1> USE DEF PackageInv, serverVars, tableVars
<1>1. <<>> \in Seq(Words) /\ Len(<<>>) = 0
  BY EmptySeq
<1>2. daSoftwares = <<>> /\ filteredSoftwares = <<>>
  BY DEF LoadBegin, LoadOK
<1>3. TypeOK'
  <2>1. isFiltered' \in BOOLEAN
    BY DEF LoadBegin, TypeOK
  <2> QED
    BY <1>1, <2>1 DEF LoadBegin, TypeOK
<1>4. LoadOK' /\ AlertsOK' /\ FilterOK' /\ CommandNamesAlertedPackage'
  BY <1>2 DEF LoadBegin, LoadOK, AlertsOK, FilterOK, CommandNamesAlertedPackage
<1>5. RowsOK'
  <2>1. CurrentList = <<>> /\ CurrentList' = <<>>
    BY <1>2 DEF LoadBegin, CurrentList
  <2> QED
    BY <2>1 DEF RowsOK, LoadBegin
<1>6. ListedOK'
  BY DEF LoadBegin, ListedOK
<1> QED
  BY <1>3, <1>4, <1>5, <1>6

\* A listing that fails leaves the table empty.
LEMMA ListFailsInv == ASSUME PackageInv, ListFails PROVE PackageInv'
<1> USE DEF PackageInv, serverVars, tableVars, listVars
<1>1. TypeOK'
  BY DEF ListFails, TypeOK
<1>2. CurrentList' = CurrentList /\ Offers' = Offers
  BY DEF ListFails, CurrentList, Offers
<1>3. LoadOK' /\ FilterOK' /\ RowsOK' /\ ListedOK'
  BY <1>2 DEF ListFails, LoadOK, FilterOK, RowsOK, ListedOK
<1>4. AlertsOK' /\ CommandNamesAlertedPackage'
  BY <1>2 DEF ListFails, AlertsOK, CommandNamesAlertedPackage
<1> QED
  BY <1>1, <1>3, <1>4

\* What is shown is listed, and the loop makes an object of its line.
LEMMA SkippedOK ==
    ASSUME TypeOK
    PROVE  /\ Shown(installed) \subseteq ToList(installed)
           /\ Shown(installed) \subseteq Packages
           /\ \A p \in Shown(installed) : ~Skipped(p)
<1>1. Shown(installed) \subseteq ToList(installed) /\ Shown(installed) \subseteq Packages
  BY DEF Shown, ToList, InstalledScreens, TypeOK
<1>2. ASSUME NEW p \in Shown(installed) PROVE ~Skipped(p)
  <2>1. Word(p) # Empty
    BY <1>1, PackageLine
  <2> QED
    BY <2>1 DEF Skipped, Shown
<1> QED
  BY <1>1, <1>2

\* An answer is cut into lines that hold every package listed, or the banner is
\* missing and the app ends.
LEMMA ListSucceedsInv == ASSUME PackageInv, ListSucceeds PROVE PackageInv'
<1> USE DEF PackageInv, serverVars, tableVars, listVars
<1>1. CurrentList' = CurrentList /\ Offers' = Offers /\ Shown(installed)' = Shown(installed) /\ (Whole' <=> Whole)
  BY DEF ListSucceeds, CurrentList, Offers, ToList, Shown, Whole
<1>2. CASE Parses
  <2>1. Stripped \in Seq(Line) /\ (Whole => Shown(installed) \subseteq Range(Stripped))
    BY StrippedOK, SkippedOK
  <2>2. /\ lines' = Stripped /\ loader' = "parse" /\ main' = main
        /\ UNCHANGED <<sudoer, authorized, requestPty, installed, removals, screen, hud, daSoftwares,
                       isFiltered, filteredSoftwares, selected, laidOut, rows, sel>>
    BY <1>2 DEF ListSucceeds
  <2>3. TypeOK'
    BY <2>1, <2>2 DEF TypeOK, Line
  <2>4. LoadOK' /\ FilterOK' /\ RowsOK' /\ AlertsOK' /\ CommandNamesAlertedPackage'
    BY <1>1, <2>2 DEF ListSucceeds, LoadOK, FilterOK, RowsOK, AlertsOK, CommandNamesAlertedPackage
  <2>5. ListedOK'
    BY <1>1, <2>1, <2>2 DEF ListedOK
  <2> QED
    BY <2>3, <2>4, <2>5
<1>3. CASE ~Parses
  <2>1. UNCHANGED <<serverVars, removals, screen, loadVars, listVars, tableVars, sel>>
    BY <1>3 DEF ListSucceeds, loadVars
  <2>2. main' = "crashed"
    BY <1>3 DEF ListSucceeds, Crash
  <2> QED
    BY <2>1, <2>2, MainOnly
<1> QED
  BY <1>2, <1>3

\* A line moves to the table or, if it is no package's, is dropped.
LEMMA ParseLineInv == ASSUME PackageInv, ParseLine PROVE PackageInv'
<1> USE DEF PackageInv, serverVars, tableVars
<1>0. Offers' = Offers /\ Shown(installed)' = Shown(installed) /\ (Whole' <=> Whole)
  BY DEF ParseLine, Offers, ToList, Shown, Whole
<1>1. CASE lines = <<>>
  <2>1. /\ loader' = "notify"
        /\ UNCHANGED <<sudoer, authorized, requestPty, installed, removals, screen, hud, daSoftwares, lines, main,
                       isFiltered, filteredSoftwares, selected, laidOut, rows, sel>>
    BY <1>1 DEF ParseLine
  <2>2. TypeOK'
    BY <2>1 DEF TypeOK
  <2>3. CurrentList' = CurrentList
    BY <2>1 DEF CurrentList
  <2>4. LoadOK' /\ FilterOK' /\ RowsOK' /\ AlertsOK' /\ CommandNamesAlertedPackage'
    BY <1>0, <2>1, <2>3 DEF ParseLine, LoadOK, FilterOK, RowsOK, AlertsOK, CommandNamesAlertedPackage
  <2>5. Range(lines) = {}
    <3>1. lines \in Seq(Line) /\ Len(lines) = 0
      BY <1>1, EmptySeq DEF TypeOK, Line
    <3> QED
      BY <3>1, RangeEmpty
  <2>6. ListedOK'
    BY <1>0, <2>1, <2>5 DEF ListedOK, ParseLine
  <2> QED
    BY <2>2, <2>4, <2>6
<1>2. CASE lines # <<>>
  <2>1. /\ daSoftwares' = IF Skipped(Head(lines)) THEN daSoftwares
                          ELSE Append(daSoftwares, Word(Head(lines)))
        /\ lines' = Tail(lines) /\ loader' = loader /\ loader = "parse"
        /\ UNCHANGED <<sudoer, authorized, requestPty, installed, removals, screen, hud, main,
                       isFiltered, filteredSoftwares, selected, laidOut, rows, sel>>
    BY <1>2 DEF ParseLine
  <2>2. /\ lines \in Seq(Line) /\ Head(lines) \in Line /\ Tail(lines) \in Seq(Line)
        /\ Range(lines) \subseteq {Head(lines)} \cup Range(Tail(lines))
    <3>1. lines \in Seq(Line)
      BY DEF TypeOK, Line
    <3> QED
      BY <1>2, <3>1, HeadTailProperties, RangeOfHeadTail
  <2>3. PICK w : w = Word(Head(lines))
    OBVIOUS
  <2>4. w \in Words /\ daSoftwares \in Seq(Words)
    BY <2>2, <2>3, WordType DEF TypeOK
  <2>5. PICK d : d = Append(daSoftwares, w)
    OBVIOUS
  <2>6. d \in Seq(Words) /\ d # <<>> /\ Len(d) = Len(daSoftwares) + 1
          /\ Range(daSoftwares) \cup {w} \subseteq Range(d)
    BY <2>4, <2>5, AppendProperties, RangeOfAppend
  <2>7. Len(daSoftwares) \in Nat
    BY <2>4, LenProperties
  <2>8. /\ daSoftwares' \in Seq(Words) /\ Len(daSoftwares) <= Len(daSoftwares')
        /\ (daSoftwares # <<>> => daSoftwares' # <<>>)
        /\ Range(daSoftwares) \subseteq Range(daSoftwares')
        /\ (Head(lines) \in Shown(installed) => Head(lines) \in Range(daSoftwares'))
    <3>1. CASE Skipped(Head(lines))
      <4>1. daSoftwares' = daSoftwares /\ Head(lines) \notin Shown(installed)
        BY <2>1, <3>1, SkippedOK
      <4> QED
        BY <2>4, <2>7, <4>1
    <3>2. CASE ~Skipped(Head(lines))
      <4>1. daSoftwares' = d
        BY <2>1, <2>3, <2>5, <3>2
      <4>2. Head(lines) \in Shown(installed) => w = Head(lines)
        BY <2>3, PackageLine, SkippedOK
      <4> QED
        BY <2>6, <2>7, <4>1, <4>2
    <3> QED
      BY <3>1, <3>2
  <2>9. TypeOK'
    BY <2>1, <2>2, <2>8 DEF TypeOK, Line
  <2>10. RowsOK'
    <3>1. Len(CurrentList) <= Len(CurrentList') /\ Len(CurrentList) \in Nat /\ Len(CurrentList') \in Nat
      <4>1. CASE isFiltered
        <5>1. CurrentList = filteredSoftwares /\ CurrentList' = filteredSoftwares
          BY <2>1, <4>1 DEF CurrentList
        <5>2. Len(filteredSoftwares) \in Nat
          BY LenProperties DEF TypeOK
        <5> QED
          BY <5>1, <5>2
      <4>2. CASE ~isFiltered
        <5>1. CurrentList = daSoftwares /\ CurrentList' = daSoftwares'
          BY <2>1, <4>2 DEF CurrentList
        <5>2. Len(daSoftwares') \in Nat
          BY <2>8, LenProperties
        <5> QED
          BY <2>7, <2>8, <5>1, <5>2
      <4> QED
        BY <4>1, <4>2
    <3>2. rows \in Nat /\ rows <= Len(CurrentList) /\ rows' = rows
      BY <2>1 DEF TypeOK, RowsOK
    <3> QED
      BY <3>1, <3>2 DEF RowsOK
  <2>11. LoadOK' /\ FilterOK' /\ AlertsOK' /\ CommandNamesAlertedPackage'
    BY <2>1, <2>8 DEF LoadOK, FilterOK, AlertsOK, CommandNamesAlertedPackage
  <2>12. ListedOK'
    <3>1. ASSUME Whole PROVE Shown(installed) \subseteq Range(daSoftwares') \cup Range(lines')
      <4>1. Shown(installed) \subseteq Range(daSoftwares) \cup Range(lines)
        BY <2>1, <3>1 DEF ListedOK
      <4> QED
        BY <2>1, <2>2, <2>8, <4>1
    <3> QED
      BY <1>0, <2>1, <3>1 DEF ListedOK
  <2> QED
    BY <2>9, <2>10, <2>11, <2>12
<1> QED
  BY <1>1, <1>2

\* The table is shown with every package of the listing.
LEMMA NotifyInv == ASSUME PackageInv, Notify PROVE PackageInv'
<1> USE DEF PackageInv, serverVars, listVars
<1>1. rows' \in Nat /\ selected' \in 0..rows' /\ RowsOK'
  BY ReloadOK DEF Notify, TypeOK
<1>2. TypeOK'
  BY <1>1 DEF Notify, TypeOK
<1>3. CurrentList' = CurrentList /\ Offers' = Offers /\ Shown(installed)' = Shown(installed) /\ (Whole' <=> Whole)
  BY DEF Notify, CurrentList, Offers, ToList, Shown, Whole
<1>4. LoadOK' /\ FilterOK' /\ ListedOK' /\ AlertsOK' /\ CommandNamesAlertedPackage'
  BY <1>3 DEF Notify, LoadOK, FilterOK, ListedOK, AlertsOK, CommandNamesAlertedPackage
<1> QED
  BY <1>1, <1>2, <1>4

\* The overlay fades after the block has ended.
LEMMA HudFadedInv == ASSUME PackageInv, HudFaded PROVE PackageInv'
<1> USE DEF PackageInv, serverVars, listVars, tableVars
<1>1. TypeOK'
  BY DEF HudFaded, TypeOK
<1>2. CurrentList' = CurrentList /\ Offers' = Offers /\ Shown(installed)' = Shown(installed) /\ (Whole' <=> Whole)
  BY DEF HudFaded, CurrentList, Offers, ToList, Shown, Whole
<1>3. LoadOK' /\ FilterOK' /\ RowsOK' /\ ListedOK' /\ AlertsOK' /\ CommandNamesAlertedPackage'
  BY <1>2 DEF HudFaded, LoadOK, FilterOK, RowsOK, ListedOK, AlertsOK, CommandNamesAlertedPackage
<1> QED
  BY <1>1, <1>3

\* The first layout counts the rows.
LEMMA FirstLayoutInv == ASSUME PackageInv, FirstLayout PROVE PackageInv'
<1> USE DEF PackageInv, serverVars, listVars, loadVars
<1>1. rows' \in Nat /\ selected' \in 0..rows' /\ RowsOK'
  BY ReloadOK DEF FirstLayout, TypeOK
<1>2. TypeOK'
  BY <1>1 DEF FirstLayout, TypeOK
<1>3. CurrentList' = CurrentList /\ Offers' = Offers /\ Shown(installed)' = Shown(installed) /\ (Whole' <=> Whole)
  BY DEF FirstLayout, CurrentList, Offers, ToList, Shown, Whole
<1>4. LoadOK' /\ FilterOK' /\ ListedOK' /\ AlertsOK' /\ CommandNamesAlertedPackage'
  BY <1>3 DEF FirstLayout, LoadOK, FilterOK, ListedOK, AlertsOK, CommandNamesAlertedPackage
<1> QED
  BY <1>1, <1>2, <1>4

\* A search between a tap and its alert is remembered.
LEMMA SearchedOK ==
    ASSUME PackageInv, Searched
    PROVE  /\ sel' \in [tag : Nat \ {0}, title : Words, searched : BOOLEAN,
                        verb : Verbs, name : Words]
           /\ main = "deferred" => sel'.searched
<1>1. sel \in [tag : Nat \ {0}, title : Words, searched : BOOLEAN, verb : Verbs, name : Words]
  BY DEF PackageInv, TypeOK
<1>2. PICK b \in BOOLEAN : b = ((main = "deferred") \/ sel.searched)
  BY <1>1
<1>3. sel' = [sel EXCEPT !.searched = b]
  BY <1>2 DEF Searched
<1>4. sel'.searched = b
  BY <1>1, <1>3
<1> QED
  BY <1>1, <1>2, <1>3, <1>4

\* A search shows rows of the table and leaves the table alone.
LEMMA SearchInv ==
    ASSUME PackageInv, Searchable, Searched, Reload,
           isFiltered' \in BOOLEAN, filteredSoftwares' \in Seq(Words),
           filteredSoftwares' # <<>> => daSoftwares # <<>>,
           UNCHANGED <<serverVars, removals, screen, loadVars, daSoftwares, laidOut, main>>
    PROVE  PackageInv'
<1> USE DEF PackageInv, serverVars, loadVars
<1>1. daSoftwares' \in Seq(Words)
  BY DEF TypeOK
<1>2. rows' \in Nat /\ selected' \in 0..rows' /\ RowsOK'
  BY <1>1, ReloadOK
<1>3. /\ sel' \in [tag : Nat \ {0}, title : Words, searched : BOOLEAN, verb : Verbs, name : Words]
      /\ main = "deferred" => sel'.searched
  BY SearchedOK
<1>4. TypeOK'
  BY <1>2, <1>3 DEF TypeOK
<1>5. Shown(installed)' = Shown(installed) /\ (Whole' <=> Whole) /\ main' \in {"idle", "deferred"}
  BY DEF ToList, Shown, Whole, Searchable
<1>6. FilterOK' /\ ListedOK'
  BY <1>5 DEF FilterOK, ListedOK
<1>7. AlertsOK' /\ CommandNamesAlertedPackage'
  BY <1>3, <1>5 DEF AlertsOK, CommandNamesAlertedPackage
<1>8. LoadOK'
  <2>1. loader = "start" => filteredSoftwares' = <<>>
    BY DEF LoadOK
  <2> QED
    BY <2>1 DEF LoadOK
<1> QED
  BY <1>2, <1>4, <1>6, <1>7, <1>8

\* Clearing the search keeps what it had found.
LEMMA SearchClearedInv == ASSUME PackageInv, SearchCleared PROVE PackageInv'
<1>1. /\ Searchable /\ Searched /\ Reload /\ isFiltered' \in BOOLEAN
      /\ filteredSoftwares' = filteredSoftwares
      /\ UNCHANGED <<serverVars, removals, screen, loadVars, daSoftwares, laidOut, main>>
  BY DEF SearchCleared
<1>2. /\ filteredSoftwares' \in Seq(Words)
      /\ filteredSoftwares' # <<>> => daSoftwares # <<>>
  BY <1>1 DEF PackageInv, TypeOK, FilterOK
<1> QED
  BY <1>1, <1>2, SearchInv

\* A search finds rows of the table.
LEMMA SearchForInv == ASSUME PackageInv, NEW M, SearchFor(M) PROVE PackageInv'
<1>1. /\ Searchable /\ Searched /\ Reload /\ isFiltered' \in BOOLEAN
      /\ filteredSoftwares' = Matching(daSoftwares, M)
      /\ UNCHANGED <<serverVars, removals, screen, loadVars, daSoftwares, laidOut, main>>
  BY DEF SearchFor
<1>2. daSoftwares \in Seq(Words)
  BY DEF PackageInv, TypeOK
<1>3. /\ filteredSoftwares' \in Seq(Words)
      /\ filteredSoftwares' # <<>> => daSoftwares # <<>>
  BY <1>1, <1>2, MatchingOK
<1> QED
  BY <1>1, <1>3, SearchInv

\* A tap is possible only on a loaded table, so the row asked about is one of it
\* and the block writes the table no more.
LEMMA AskInv ==
    ASSUME PackageInv, hud = "off", NEW r \in 1..rows, NEW s \in 1..rows,
           NEW next \in {"alert", "deferred"}, AskAbout(s, next), selected' = r,
           UNCHANGED <<serverVars, removals, screen, loadVars, listVars, laidOut, rows>>
    PROVE  PackageInv'
<1> USE DEF PackageInv, serverVars, loadVars, listVars
<1>1. /\ Len(CurrentList) \in Nat
      /\ daSoftwares = <<>> => Len(CurrentList) = 0
      /\ \A k \in Nat \ {0} : k <= Len(CurrentList) => CurrentList[k] \in Words
  BY CurrentListOK
<1>2. rows \in Nat /\ rows <= Len(CurrentList)
  BY DEF TypeOK, RowsOK
<1>3. s \in Nat \ {0} /\ s <= Len(CurrentList) /\ Len(CurrentList) # 0
  BY <1>1, <1>2
<1>4. daSoftwares # <<>>
  BY <1>1, <1>3
<1>5. loader = "done"
  BY <1>4 DEF LoadOK, TypeOK
<1>6. main' = next /\ sel' = [NoAlert EXCEPT !.tag = s, !.title = CurrentList[s]]
  BY <1>3 DEF AskAbout
<1>7. PICK w \in Words : w = CurrentList[s]
  BY <1>1, <1>3
<1>8. sel' = [tag |-> s, title |-> w, searched |-> FALSE, verb |-> "install", name |-> Empty]
  BY <1>6, <1>7 DEF NoAlert
<1>9. sel' \in [tag : Nat \ {0}, title : Words, searched : BOOLEAN, verb : Verbs, name : Words]
  <2>1. Empty \in Words /\ "install" \in Verbs
    BY DEF Words, Verbs
  <2> QED
    BY <1>3, <1>8, <2>1
<1>10. selected' \in 0..rows'
  <2>1. r \in 0..rows
    BY <1>2
  <2> QED
    BY <2>1
<1>11. TypeOK'
  BY <1>6, <1>9, <1>10 DEF TypeOK
<1>12. CurrentList' = CurrentList /\ Shown(installed)' = Shown(installed) /\ (Whole' <=> Whole)
  BY DEF CurrentList, ToList, Shown, Whole
<1>13. LoadOK' /\ FilterOK' /\ ListedOK' /\ CommandNamesAlertedPackage'
  BY <1>6, <1>12 DEF LoadOK, FilterOK, ListedOK, CommandNamesAlertedPackage
<1>14. RowsOK'
  BY <1>2, <1>12 DEF RowsOK
<1>15. AlertsOK'
  <2>1. sel'.tag = s /\ sel'.title = w
    BY <1>8
  <2> QED
    BY <1>3, <1>4, <1>5, <1>6, <1>7, <1>12, <2>1 DEF AlertsOK
<1> QED
  BY <1>11, <1>13, <1>14, <1>15

\* The taps of three screens.
LEMMA TapInv == ASSUME PackageInv, NEW r \in 1..rows, Tap(r) PROVE PackageInv'
<1>1. /\ hud = "off" /\ AskAbout(r, "alert") /\ selected' = r
      /\ UNCHANGED <<serverVars, removals, screen, loadVars, listVars, laidOut, rows>>
  BY DEF Tap
<1> QED
  BY <1>1, AskInv

\* The taps of the fourth: the row asked about is the one selected before.
LEMMA TapDeselectingInv ==
    ASSUME PackageInv, NEW r \in 1..rows, TapDeselecting(r)
    PROVE  PackageInv'
<1>1. /\ hud = "off" /\ selected' = r /\ main = "idle"
      /\ UNCHANGED <<serverVars, removals, screen, loadVars, listVars, laidOut, rows>>
  BY DEF TapDeselecting
<1>2. rows \in Nat /\ selected \in 0..rows
  BY DEF PackageInv, TypeOK
<1>3. CASE selected \in {0, r}
  <2>1. UNCHANGED <<main, sel>>
    BY <1>3 DEF TapDeselecting
  <2>2. selected' \in 0..rows'
    <3>1. r \in 0..rows
      BY <1>2
    <3> QED
      BY <1>1, <3>1
  <2> USE DEF PackageInv, serverVars, loadVars, listVars
  <2>3. TypeOK'
    BY <1>1, <2>1, <2>2 DEF TypeOK
  <2>4. CurrentList' = CurrentList /\ Offers' = Offers /\ Shown(installed)' = Shown(installed) /\ (Whole' <=> Whole)
    BY <1>1 DEF CurrentList, Offers, ToList, Shown, Whole
  <2>5. LoadOK' /\ FilterOK' /\ RowsOK' /\ ListedOK' /\ AlertsOK' /\ CommandNamesAlertedPackage'
    BY <1>1, <2>1, <2>4
       DEF LoadOK, FilterOK, RowsOK, ListedOK, AlertsOK, CommandNamesAlertedPackage
  <2> QED
    BY <2>3, <2>5
<1>4. CASE selected \notin {0, r}
  <2>1. selected \in 1..rows
    BY <1>2, <1>4
  <2>2. AskAbout(selected, "deferred")
    BY <1>4 DEF TapDeselecting
  <2> QED
    BY <1>1, <2>1, <2>2, AskInv
<1> QED
  BY <1>3, <1>4

\* The handler looks the row up again by its tag and finds the alert's title,
\* or is past the end of the array and the app ends.
LEMMA ConfirmInv ==
    ASSUME PackageInv, NEW verb \in Verbs, Confirm(verb)
    PROVE  PackageInv'
<1> USE DEF PackageInv, serverVars, loadVars, listVars, tableVars
<1>1. removals' \in 0..MaxRemovals
  <2>1. MaxRemovals \in Nat /\ removals \in 0..MaxRemovals
    BY CatalogAssumption DEF CatalogAssumption, TypeOK
  <2>2. CASE verb = "remove"
    BY <2>1, <2>2 DEF Confirm
  <2>3. CASE verb # "remove"
    BY <2>1, <2>3 DEF Confirm
  <2> QED
    BY <2>2, <2>3
<1>2. /\ main = "alert" /\ verb \in Offers
      /\ UNCHANGED <<sudoer, authorized, requestPty, installed, screen, loader, lines, hud, daSoftwares,
                     isFiltered, filteredSoftwares, selected, laidOut, rows>>
  BY DEF Confirm
<1>3. CurrentList' = CurrentList /\ Offers' = Offers /\ Shown(installed)' = Shown(installed) /\ (Whole' <=> Whole)
  BY <1>2 DEF CurrentList, Offers, ToList, Shown, Whole
<1>4. LoadOK' /\ FilterOK' /\ RowsOK' /\ ListedOK'
  BY <1>2, <1>3 DEF LoadOK, FilterOK, RowsOK, ListedOK
<1>5. sel \in [tag : Nat \ {0}, title : Words, searched : BOOLEAN, verb : Verbs, name : Words]
  BY DEF TypeOK
<1>6. CASE sel.tag <= Len(CurrentList)
  <2>1. main' = "command" /\ sel' = [sel EXCEPT !.verb = verb, !.name = CurrentList[sel.tag]]
    BY <1>6 DEF Confirm, Answered
  <2>2. PICK w \in Words : w = CurrentList[sel.tag]
    BY <1>5, <1>6, CurrentListOK
  <2>3. /\ sel' \in [tag : Nat \ {0}, title : Words, searched : BOOLEAN, verb : Verbs, name : Words]
        /\ sel'.verb = verb /\ sel'.name = w /\ sel'.title = sel.title
        /\ sel'.searched = sel.searched
    BY <1>5, <2>1, <2>2
  <2>4. TypeOK'
    BY <1>1, <1>2, <2>1, <2>3 DEF TypeOK
  <2>5. AlertsOK'
    BY <1>2, <1>3, <2>1, <2>3 DEF AlertsOK
  <2>6. CommandNamesAlertedPackage'
    BY <1>2, <2>2, <2>3 DEF AlertsOK, CommandNamesAlertedPackage
  <2> QED
    BY <1>4, <2>4, <2>5, <2>6
<1>7. CASE ~(sel.tag <= Len(CurrentList))
  <2>1. main' = "crashed" /\ sel' = sel
    BY <1>7 DEF Confirm, Answered, Crash
  <2>2. TypeOK'
    BY <1>1, <1>2, <2>1 DEF TypeOK
  <2>3. AlertsOK' /\ CommandNamesAlertedPackage'
    BY <2>1 DEF AlertsOK, CommandNamesAlertedPackage
  <2> QED
    BY <1>4, <2>2, <2>3
<1> QED
  BY <1>6, <1>7

\* A screen offers no command that adds to what it lists: the packages listed
\* after a command were listed before it.
LEMMA EffectOK ==
    ASSUME PackageInv, main = "command", Effect, screen' = screen
    PROVE  installed' \in SUBSET Packages /\ Shown(installed)' \subseteq Shown(installed)
<1> USE DEF PackageInv
<1>1. installed \in SUBSET Packages /\ sel.verb \in Offers
  BY DEF TypeOK, AlertsOK
<1>3. installed' \in SUBSET Packages
  BY <1>1 DEF Effect
<1>4. CASE screen \in InstalledScreens
  <2>1. sel.verb \in {"update", "remove"}
    BY <1>1, <1>4 DEF Offers
  <2>2. installed' \subseteq installed
    BY <2>1 DEF Effect
  <2> QED
    BY <1>3, <1>4, <2>2 DEF Shown, ToList
<1>5. CASE screen \notin InstalledScreens
  BY <1>3, <1>5 DEF Shown, ToList
<1> QED
  BY <1>4, <1>5

\* The command's return: the table is refreshed, reloaded or left alone; rows
\* are appended to it and none are taken away.
LEMMA CommandReturnsInv == ASSUME PackageInv, CommandReturns PROVE PackageInv'
<1> USE DEF PackageInv, loadVars
<1>1. /\ main = "command" /\ Effect /\ main' = "idle"
      /\ UNCHANGED <<sudoer, authorized, removals, screen, loader, lines, hud, sel>>
  BY DEF CommandReturns
<1>2. installed' \in SUBSET Packages /\ Shown(installed)' \subseteq Shown(installed)
  BY <1>1, EffectOK
<1>10. requestPty' \in BOOLEAN /\ (Whole' => Whole)
  BY <1>1 DEF CommandReturns, UpdateTableData, Whole, TypeOK
<1>3. loader = "done" /\ daSoftwares # <<>> /\ daSoftwares \in Seq(Words)
        /\ filteredSoftwares \in Seq(Words)
  BY <1>1 DEF AlertsOK, TypeOK
<1>4. AlertsOK' /\ CommandNamesAlertedPackage'
  BY <1>1 DEF AlertsOK, CommandNamesAlertedPackage
<1>5. /\ daSoftwares' \in Seq(Words) /\ daSoftwares' # <<>>
      /\ Range(daSoftwares) \subseteq Range(daSoftwares')
      /\ isFiltered' \in BOOLEAN /\ filteredSoftwares' = filteredSoftwares
      /\ laidOut' = laidOut
  <2>1. CASE daSoftwares' = daSoftwares /\ isFiltered' \in BOOLEAN
               /\ filteredSoftwares' = filteredSoftwares /\ laidOut' = laidOut
    BY <1>3, <2>1
  <2>2. CASE /\ daSoftwares' = daSoftwares \o RefreshedRows(installed')
             /\ isFiltered' = FALSE /\ filteredSoftwares' = filteredSoftwares
             /\ laidOut' = laidOut
    <3>1. PICK new : new = RefreshedRows(installed')
      OBVIOUS
    <3>2. new \in Seq(Words)
      BY <1>2, <3>1, RefreshedType
    <3>3. PICK d : d = daSoftwares \o new
      OBVIOUS
    <3>4. d \in Seq(Words) /\ d # <<>> /\ Range(daSoftwares) \subseteq Range(d)
      BY <1>3, <3>2, <3>3, ConcatProperties, ConcatEqualIffEmpty, RangeOfConcat
    <3> QED
      BY <2>2, <3>1, <3>3, <3>4
  <2> QED
    BY <2>1, <2>2 DEF CommandReturns, UpdateTableData, listVars, TypeOK
<1>6. rows' \in Nat /\ selected' \in 0..rows' /\ RowsOK'
  <2>1. CASE Reload
    BY <1>3, <1>5, <2>1, ReloadOK
  <2>2. CASE UNCHANGED <<listVars, selected, rows>>
    BY <2>2 DEF listVars, TypeOK, RowsOK, CurrentList
  <2> QED
    BY <2>1, <2>2 DEF CommandReturns, UpdateTableData, listVars
<1>7. TypeOK'
  BY <1>1, <1>2, <1>3, <1>5, <1>6, <1>10 DEF TypeOK
<1>8. LoadOK' /\ FilterOK'
  BY <1>1, <1>3, <1>5 DEF LoadOK, FilterOK
<1>9. ListedOK'
  BY <1>1, <1>2, <1>3, <1>5, <1>10 DEF ListedOK
<1> QED
  BY <1>4, <1>6, <1>7, <1>8, <1>9

\* A line that has no second part ends the app.
LEMMA ParseRaisesInv == ASSUME PackageInv, ParseRaises PROVE PackageInv'
<1>1. UNCHANGED <<serverVars, removals, screen, loadVars, listVars, tableVars, sel>>
  BY DEF ParseRaises
<1>2. main' = "crashed"
  BY DEF ParseRaises, Crash
<1> QED
  BY <1>1, <1>2, MainOnly

\* Every step of the main thread, of the block and of the user.
LEMMA PackageNext == ASSUME PackageInv, [Next]_vars PROVE PackageInv'
<1>1. CASE LoaderStep
  BY <1>1, LoadBeginInv, ListFailsInv, ListSucceedsInv, ParseLineInv, ParseRaisesInv, NotifyInv
     DEF LoaderStep
<1>2. CASE HudFaded
  BY <1>2, HudFadedInv
<1>3. CASE ShowDeferred \/ Cancel \/ Back \/ ChooseCancelled
  <2>1. UNCHANGED <<serverVars, removals, screen, loadVars, listVars, tableVars, sel>>
    BY <1>3 DEF ShowDeferred, Cancel, Back, ChooseCancelled
  <2>2. \/ main' \in {"select", "yum", "apt-get", "idle", "crashed"}
        \/ main = "deferred" /\ main' = "alert"
    BY <1>3 DEF ShowDeferred, Cancel, Back, ChooseCancelled, Crash
  <2> QED
    BY <2>1, <2>2, MainOnly
<1>4. ASSUME NEW pm \in Managers, ChooseManager(pm) PROVE PackageInv'
  <2>1. UNCHANGED <<serverVars, removals, screen, loadVars, listVars, tableVars, sel>>
    BY <1>4 DEF ChooseManager
  <2>2. main' \in {"select", "yum", "apt-get", "idle", "crashed"}
    BY <1>4 DEF ChooseManager, Managers
  <2> QED
    BY <2>1, <2>2, MainOnly
<1>5. CASE CommandReturns
  BY <1>5, CommandReturnsInv
<1>6. CASE User
  <2>1. ASSUME NEW what \in {"new", "installed"}, Open(what) PROVE PackageInv'
    BY <2>1, OpenInv
  <2>2. CASE FirstLayout \/ SearchCleared
    BY <2>2, FirstLayoutInv, SearchClearedInv
  <2>3. ASSUME NEW M \in SUBSET Range(daSoftwares), SearchFor(M) PROVE PackageInv'
    BY <2>3, SearchForInv
  <2>4. ASSUME NEW r \in 1..rows, Tap(r) \/ TapDeselecting(r) PROVE PackageInv'
    BY <2>4, TapInv, TapDeselectingInv
  <2>5. ASSUME NEW verb \in Verbs, Confirm(verb) PROVE PackageInv'
    BY <2>5, ConfirmInv
  <2> QED
    BY <1>3, <1>4, <1>6, <2>1, <2>2, <2>3, <2>4, <2>5 DEF User
<1>7. CASE UNCHANGED vars
  <2>1. UNCHANGED <<serverVars, removals, screen, loadVars, listVars, tableVars, sel, main>>
    BY <1>7 DEF vars
  <2> USE DEF PackageInv, serverVars, loadVars, listVars, tableVars
  <2>2. TypeOK'
    BY <2>1 DEF TypeOK
  <2>3. CurrentList' = CurrentList /\ Offers' = Offers /\ Shown(installed)' = Shown(installed) /\ (Whole' <=> Whole)
    BY <2>1 DEF CurrentList, Offers, ToList, Shown, Whole
  <2>4. LoadOK' /\ FilterOK' /\ RowsOK' /\ ListedOK' /\ AlertsOK' /\ CommandNamesAlertedPackage'
    BY <2>1, <2>3
       DEF LoadOK, FilterOK, RowsOK, ListedOK, AlertsOK, CommandNamesAlertedPackage
  <2> QED
    BY <2>2, <2>4
<1> QED
  BY <1>1, <1>2, <1>3, <1>5, <1>6, <1>7 DEF Next, MainStep

\* The invariant holds in every reachable state.
THEOREM PackageInvariant == Spec => []PackageInv
<1>1. Init => PackageInv
  BY PackageInit
<1>2. PackageInv /\ [Next]_vars => PackageInv'
  BY PackageNext
<1> QED
  BY <1>1, <1>2, PTL DEF Spec

\* The types of the screens' state, for every catalogue.
THEOREM PackageTypeCorrect == Spec => []TypeOK
<1>1. PackageInv => TypeOK
  BY DEF PackageInv
<1> QED
  BY <1>1, PackageInvariant, PTL

\* What is removed, updated or installed is what the alert asked about, though
\* clickedButtonAtIndex: looks the row up again by the alert's tag; the one
\* exception is a search handled before a deferred alert is shown.
THEOREM CommandNamesRow == Spec => []CommandNamesAlertedPackage
<1>1. PackageInv => CommandNamesAlertedPackage
  BY DEF PackageInv
<1> QED
  BY <1>1, PackageInvariant, PTL

\* cellForRowAtIndexPath: is never asked for a row outside its array, though the
\* block of viewDidLoad writes the array and the filter from another thread.
THEOREM RowsBounded == Spec => []RowsInRange
<1>1. PackageInv => RowsInRange
  BY DEF PackageInv, RowsOK, RowsInRange
<1> QED
  BY <1>1, PackageInvariant, PTL

\* Every package that a completed listing shows is in the table and stays there:
\* no banner, empty line, wrapped entry, search or refresh loses one.  Not shown
\* are packages for other machines on the available-with-yum screen (line 59 of
\* YumInstallNewViewController.m); a listing of apt in a terminal is left out.
THEOREM ListingStays == Spec => []ListedPackagesStay
<1>1. PackageInv => ListedPackagesStay
  BY DEF PackageInv, ListedOK, Whole, ListedPackagesStay
<1> QED
  BY <1>1, PackageInvariant, PTL
=============================================================================
