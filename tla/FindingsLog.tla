---------------------------- MODULE FindingsLog -----------------------------
(***************************************************************************)
(* What the edge server promises about findings: a class found in a        *)
(* camera's picture is owed to the cloud until a report that names it is   *)
(* out, and a report names nothing but what is owed.                       *)
(***************************************************************************)
CONSTANTS Cameras, Classes

VARIABLES
  owed,     \* the classes each camera has found since the last report
  reported  \* the classes in the last report of each camera

vars == <<owed, reported>>

Nothing == [d \in Cameras |-> {}]

Init == owed = Nothing /\ reported = Nothing

Find(d, found) ==
  /\ owed' = [owed EXCEPT ![d] = @ \cup found]
  /\ UNCHANGED reported

\* A report of camera d gets out.  All is settled only when each camera's
\* last report names all it owes.
Report(d, classes) ==
  /\ classes \subseteq owed[d]
  /\ reported' = [reported EXCEPT ![d] = classes]
  /\ \/ UNCHANGED owed
     \/ /\ \A e \in Cameras : owed[e] \subseteq reported'[e]
        /\ owed' = Nothing

Next ==
  \E d \in Cameras, classes \in SUBSET Classes :
    Find(d, classes) \/ Report(d, classes)

Spec == Init /\ [][Next]_vars
=============================================================================
