------------------------------ MODULE Findings ------------------------------
(***************************************************************************)
(* What the edge server makes of the predictions for a camera's pictures:  *)
(* ImageClassifier.groupClasses (with util/Bag.js) counts the classes of   *)
(* one picture, and EdgeServer.queueData merges the counts into the entry  *)
(* that waits for the next report.                                         *)
(*                                                                         *)
(* An entry {classes, trackedClasses, countClasses} is its countClasses: a *)
(* function that gives 0 to a class which is not a key.  classes are its   *)
(* keys in every entry (Keys), trackedClasses those of them with a tag.    *)
(***************************************************************************)
EXTENDS Integers, FiniteSets

CONSTANTS Classes, MaxCount

ASSUME FindingsAssumption == MaxCount \in Nat \ {0}

Counts == [Classes -> 0 .. MaxCount]

Keys(counts) == {c \in Classes : counts[c] > 0}

\* Mutant: the threshold is ignored.
GroupClassesAll(predictions) ==
  [c \in Classes |->
     Cardinality({k \in DOMAIN predictions : predictions[k].class = c})]

\* The bag of the predictions whose score reaches the threshold.
GroupClasses(predictions) ==
  [c \in Classes |->
     Cardinality({k \in DOMAIN predictions :
                    predictions[k].class = c /\ predictions[k].confident})]

\* Mutants: the counts of the pictures are added up, within the bound or not.
MergeCountsAdded(old, new) ==
  [c \in Classes |-> IF old[c] + new[c] > MaxCount THEN MaxCount ELSE old[c] + new[c]]

MergeCountsUncapped(old, new) == [c \in Classes |-> old[c] + new[c]]

\* nCountClasses has the keys of both; Math.max of a missing count is NaN,
\* and NaN || 1 is 1.
MergeCounts(old, new) ==
  [c \in Classes |->
     IF old[c] > 0 /\ new[c] > 0 THEN IF old[c] >= new[c] THEN old[c] ELSE new[c]
     ELSE IF old[c] > 0 \/ new[c] > 0 THEN 1
     ELSE 0]

\* The entry of a camera without one: no classes.
NoCounts == [c \in Classes |-> 0]
=============================================================================
