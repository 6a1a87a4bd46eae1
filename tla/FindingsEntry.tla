---------------------------- MODULE FindingsEntry ---------------------------
(***************************************************************************)
(* The entry of one camera between two reports: every picture is classified*)
(* and merged into it.  "pictures" remembers the predictions, so that what *)
(* the entry says can be compared with what was seen.                      *)
(***************************************************************************)
EXTENDS Findings, Sequences, FiniteSetsExt

CONSTANTS
  MaxPictures,   \* bound: pictures between two reports
  MaxPredictions \* bound: predictions for a picture

ASSUME EntryAssumption ==
  MaxPictures \in Nat /\ MaxPredictions \in Nat /\ MaxPredictions <= MaxCount

VARIABLES pictures, counts

vars == <<pictures, counts>>

Prediction == [class : Classes, confident : BOOLEAN]
Picture == UNION {[1 .. n -> Prediction] : n \in 0 .. MaxPredictions}

Init == pictures = <<>> /\ counts = NoCounts

QueueData(picture) ==
  /\ Len(pictures) < MaxPictures
  /\ pictures' = Append(pictures, picture)
  /\ counts' = MergeCounts(counts, GroupClasses(picture))

\* Once the report is out, clearQueue drops the entry.
ClearEntry ==
  /\ pictures # <<>>
  /\ pictures' = <<>> /\ counts' = NoCounts

Next == ClearEntry \/ \E picture \in Picture : QueueData(picture)

Spec == Init /\ [][Next]_vars

-----------------------------------------------------------------------------
TypeOK == counts \in Counts

\* How many objects of class c picture i shows for certain.
Shown(i, c) ==
  Cardinality({k \in DOMAIN pictures[i] :
                 pictures[i][k].class = c /\ pictures[i][k].confident})

\* queueData never forgets a class and never invents one: the entry has the
\* classes of all the pictures since the last report, whatever the order of
\* the pictures and of their predictions.
ClassesKept ==
  Keys(counts) = {c \in Classes : \E i \in 1 .. Len(pictures) : Shown(i, c) > 0}

\* What a count in a report means.  It is not the most objects seen at once: a
\* picture without the class sets it back to 1, and the picture that brings
\* the class into the entry counts as 1.  It is the most seen in the pictures
\* since then that show the class without a gap.
CountsExplained ==
  \A c \in Keys(counts) :
    LET n      == Len(pictures)
        First  == {i \in 1 .. n : Shown(i, c) > 0 /\ \A j \in 1 .. i - 1 : Shown(j, c) = 0}
        Counted == {i \in (1 .. n) \ First : \A j \in i .. n : Shown(j, c) > 0}
    IN  counts[c] = Max({1} \cup {Shown(i, c) : i \in Counted})
=============================================================================
