-------------------------- MODULE WorkingDirectory --------------------------
(***************************************************************************)
(* What SFTPHelper.h promises: a simple class which tracks the working     *)
(* directory.  The directory is a path of names; a browser opens at its    *)
(* start, goes down by one name or up by one name, and nothing else moves  *)
(* it.                                                                     *)
(***************************************************************************)
EXTENDS Sequences, Naturals

CONSTANTS Names,    \* names of directories
          Starts    \* the paths a browser may open at

VARIABLES browsing, \* a browser is on the navigation stack
          cwd       \* its working directory, a sequence of names

Parent(p) == IF p = <<>> THEN <<>> ELSE SubSeq(p, 1, Len(p) - 1)

Init == browsing = FALSE /\ cwd = <<>>

Open == ~browsing /\ browsing' = TRUE /\ cwd' \in Starts

Enter(n) == browsing /\ cwd' = Append(cwd, n) /\ UNCHANGED browsing

Leave == browsing /\ cwd' = Parent(cwd) /\ UNCHANGED browsing

Close == browsing /\ browsing' = FALSE /\ UNCHANGED cwd

Next == Open \/ (\E n \in Names : Enter(n)) \/ Leave \/ Close

Spec == Init /\ [][Next]_<<browsing, cwd>>
=============================================================================
