------------------------ MODULE FindingsEntry_proofs ------------------------
(***************************************************************************)
(* Proofs about the entry of a camera, for any classes, any predictions    *)
(* and any number of pictures.                                             *)
(***************************************************************************)
EXTENDS FindingsEntry, FiniteSetTheorems, TLAPS

\* The merge of queueData returns counts, and has the keys of both.
LEMMA MergeCountsKeys ==
  ASSUME NEW old \in Counts, NEW new \in Counts
  PROVE  /\ MergeCounts(old, new) \in Counts
         /\ Keys(MergeCounts(old, new)) = Keys(old) \cup Keys(new)
<1>1. ASSUME NEW c \in Classes
      PROVE  /\ MergeCounts(old, new)[c] \in 0 .. MaxCount
             /\ MergeCounts(old, new)[c] > 0 <=> old[c] > 0 \/ new[c] > 0
  BY FindingsAssumption DEF MergeCounts, Counts
<1>2. MergeCounts(old, new) \in Counts
  BY <1>1 DEF MergeCounts, Counts
<1> QED BY <1>1, <1>2 DEF Keys

\* A count of nothing has no keys.
LEMMA NoCountsKeys == NoCounts \in Counts /\ Keys(NoCounts) = {}
BY FindingsAssumption DEF NoCounts, Counts, Keys

\* The objects of a class that a picture shows for certain.
Certain(picture, c) ==
  {k \in DOMAIN picture : picture[k].class = c /\ picture[k].confident}

\* There are at most as many of them as predictions, so that their number is a
\* count; and it is 0 only if there are none.
LEMMA CertainCount ==
  ASSUME NEW picture \in Picture, NEW c \in Classes
  PROVE  /\ IsFiniteSet(Certain(picture, c))
         /\ Cardinality(Certain(picture, c)) \in 0 .. MaxCount
<1>1. PICK n \in 0 .. MaxPredictions : picture \in [1 .. n -> Prediction]
  BY DEF Picture
<1>2. n \in Nat /\ n <= MaxCount /\ MaxCount \in Nat
  BY <1>1, EntryAssumption, FindingsAssumption
<1>3. IsFiniteSet(1 .. n) /\ Cardinality(1 .. n) = n
  BY <1>2, FS_Interval
<1>4. Certain(picture, c) \subseteq 1 .. n
  BY <1>1 DEF Certain
<1>5. /\ IsFiniteSet(Certain(picture, c))
      /\ Cardinality(Certain(picture, c)) <= Cardinality(1 .. n)
  BY <1>3, <1>4, FS_Subset
<1>6. Cardinality(Certain(picture, c)) \in Nat
  BY <1>5, FS_CardinalityType
<1> QED BY <1>2, <1>3, <1>5, <1>6

\* groupClasses returns counts.
LEMMA GroupClassesType ==
  ASSUME NEW picture \in Picture PROVE GroupClasses(picture) \in Counts
<1>1. ASSUME NEW c \in Classes PROVE Cardinality(Certain(picture, c)) \in 0 .. MaxCount
  BY CertainCount
<1> QED BY <1>1 DEF GroupClasses, Counts, Certain

-----------------------------------------------------------------------------
\* The pictures are pictures, and the entry has their classes.
EntryInv == pictures \in Seq(Picture) /\ TypeOK /\ ClassesKept

LEMMA InitEntry == Init => EntryInv
<1> SUFFICES ASSUME Init PROVE EntryInv
  OBVIOUS
<1>1. TypeOK
  BY NoCountsKeys DEF Init, TypeOK
<1>2. Keys(counts) = {} /\ 1 .. Len(pictures) = {}
  BY NoCountsKeys DEF Init
<1>3. ClassesKept
  BY <1>2 DEF ClassesKept
<1> QED BY <1>1, <1>3 DEF Init, EntryInv

\* A picture more: the earlier ones show what they showed, the last one what
\* groupClasses makes of it.
LEMMA PictureAdded ==
  ASSUME EntryInv, NEW picture \in Picture, QueueData(picture), NEW n, n = Len(pictures)
  PROVE  /\ n \in Nat /\ pictures' \in Seq(Picture) /\ Len(pictures') = n + 1
         /\ \A c \in Classes :
              /\ \A i \in 1 .. n : Shown(i, c) \in Nat /\ Shown(i, c)' = Shown(i, c)
              /\ Shown(n + 1, c)' = GroupClasses(picture)[c]
         /\ GroupClasses(picture) \in Counts
<1>1. /\ n \in Nat /\ pictures' \in Seq(Picture) /\ Len(pictures') = n + 1
      /\ \A i \in 1 .. n : pictures[i] \in Picture /\ pictures'[i] = pictures[i]
      /\ pictures'[n + 1] = picture
  BY DEF QueueData, EntryInv
<1>2. ASSUME NEW c \in Classes, NEW i \in 1 .. n
      PROVE  Shown(i, c) \in Nat /\ Shown(i, c)' = Shown(i, c)
  <2>1. pictures[i] \in Picture /\ pictures'[i] = pictures[i]
    BY <1>1
  <2>2. /\ Shown(i, c) = Cardinality(Certain(pictures[i], c))
        /\ Shown(i, c)' = Cardinality(Certain(pictures'[i], c))
    BY DEF Shown, Certain
  <2>3. Cardinality(Certain(pictures[i], c)) \in Nat
    BY <2>1, CertainCount, FindingsAssumption
  <2> QED BY <2>1, <2>2, <2>3
<1>3. ASSUME NEW c \in Classes PROVE Shown(n + 1, c)' = GroupClasses(picture)[c]
  <2>1. /\ Shown(n + 1, c)' = Cardinality(Certain(pictures'[n + 1], c))
        /\ GroupClasses(picture)[c] = Cardinality(Certain(picture, c))
    BY DEF Shown, Certain, GroupClasses
  <2> QED BY <2>1, <1>1
<1> QED BY <1>1, <1>2, <1>3, GroupClassesType

\* A picture adds the classes it shows, and takes none away.
LEMMA QueueDataEntry ==
  ASSUME EntryInv, NEW picture \in Picture, QueueData(picture)
  PROVE  EntryInv'
<1>0. PICK n : n = Len(pictures)
  OBVIOUS
<1>1. /\ n = Len(pictures) /\ counts \in Counts /\ n \in Nat
      /\ Keys(counts) = {c \in Classes : \E i \in 1 .. n : Shown(i, c) > 0}
  BY <1>0 DEF EntryInv, TypeOK, ClassesKept
<1>2. pictures' \in Seq(Picture) /\ Len(pictures') = n + 1
  BY <1>0, PictureAdded
<1>3. GroupClasses(picture) \in Counts
  BY <1>0, PictureAdded
<1>4. counts' \in Counts /\ Keys(counts') = Keys(counts) \cup Keys(GroupClasses(picture))
  BY <1>1, <1>3, MergeCountsKeys DEF QueueData
<1>5. ASSUME NEW c \in Classes, NEW i \in 1 .. n PROVE Shown(i, c)' = Shown(i, c)
  BY <1>0, PictureAdded
<1>6. ASSUME NEW c \in Classes PROVE Shown(n + 1, c)' = GroupClasses(picture)[c]
  BY <1>0, PictureAdded
<1>7. ASSUME NEW c \in Classes
      PROVE  (\E i \in 1 .. n + 1 : Shown(i, c)' > 0)
               <=> (\E i \in 1 .. n : Shown(i, c) > 0) \/ GroupClasses(picture)[c] > 0
  <2>1. ASSUME NEW i \in 1 .. n + 1, Shown(i, c)' > 0
        PROVE  (\E j \in 1 .. n : Shown(j, c) > 0) \/ GroupClasses(picture)[c] > 0
    <3>1. CASE i = n + 1
      BY <2>1, <3>1, <1>6
    <3>2. CASE i # n + 1
      <4>1. i \in 1 .. n
        BY <3>2, <1>1
      <4>2. Shown(i, c) > 0
        BY <2>1, <4>1, <1>5
      <4> QED BY <4>1, <4>2
    <3> QED BY <3>1, <3>2
  <2>2. ASSUME NEW i \in 1 .. n, Shown(i, c) > 0
        PROVE  \E j \in 1 .. n + 1 : Shown(j, c)' > 0
    <3>1. i \in 1 .. n + 1
      BY <1>1
    <3>2. Shown(i, c)' > 0
      BY <2>2, <1>5
    <3> QED BY <3>1, <3>2
  <2>3. ASSUME GroupClasses(picture)[c] > 0
        PROVE  \E j \in 1 .. n + 1 : Shown(j, c)' > 0
    <3>1. n + 1 \in 1 .. n + 1
      BY <1>1
    <3>2. Shown(n + 1, c)' > 0
      BY <2>3, <1>6
    <3> QED BY <3>1, <3>2
  <2> QED BY <2>1, <2>2, <2>3
<1>8. {c \in Classes : \E i \in 1 .. n + 1 : Shown(i, c)' > 0}
        = Keys(counts) \cup Keys(GroupClasses(picture))
  <2> QED BY <1>7, <1>1 DEF Keys
<1>9. ClassesKept'
  BY <1>2, <1>4, <1>8 DEF ClassesKept
<1> QED BY <1>2, <1>4, <1>9 DEF EntryInv, TypeOK

LEMMA EntryStep == EntryInv /\ [Next]_vars => EntryInv'
<1> SUFFICES ASSUME EntryInv, [Next]_vars PROVE EntryInv'
  OBVIOUS
<1>1. ASSUME ClearEntry PROVE EntryInv'
  <2>1. pictures' = <<>> /\ counts' = NoCounts
    BY <1>1 DEF ClearEntry
  <2>2. pictures' \in Seq(Picture) /\ counts' \in Counts
    BY <2>1, NoCountsKeys
  <2>3. Keys(counts') = {} /\ 1 .. Len(pictures') = {}
    BY <2>1, NoCountsKeys
  <2>4. ClassesKept'
    BY <2>3 DEF ClassesKept
  <2> QED BY <2>2, <2>4 DEF EntryInv, TypeOK
<1>2. ASSUME NEW picture \in Picture, QueueData(picture) PROVE EntryInv'
  BY <1>2, QueueDataEntry
<1>3. ASSUME UNCHANGED vars PROVE EntryInv'
  <2>1. pictures' = pictures /\ counts' = counts
    BY <1>3 DEF vars
  <2>2. ASSUME NEW i, NEW c PROVE Shown(i, c)' = Shown(i, c)
    BY <2>1 DEF Shown
  <2>3. ClassesKept'
    BY <2>1, <2>2 DEF EntryInv, ClassesKept
  <2> QED BY <2>1, <2>3 DEF EntryInv, TypeOK
<1> QED BY <1>1, <1>2, <1>3 DEF Next

\* Every entry of the queue is of its type.
THEOREM EntriesTyped == Spec => []TypeOK
<1>1. EntryInv => TypeOK
  BY DEF EntryInv
<1> QED BY <1>1, InitEntry, EntryStep, PTL DEF Spec

\* queueData never forgets a class and never invents one.
THEOREM ClassesNeverLost == Spec => []ClassesKept
<1>1. EntryInv => ClassesKept
  BY DEF EntryInv
<1> QED BY <1>1, InitEntry, EntryStep, PTL DEF Spec

-----------------------------------------------------------------------------
(* What a count means.  The maximum in CountsExplained is a CHOOSE; the        *)
(* invariant says instead that the count is one of the values and no less than *)
(* any of them.                                                                *)

\* The picture that brings class c into the entry, and those that count: since
\* them the class is shown without a gap.
First(c) == {i \in 1 .. Len(pictures) : Shown(i, c) > 0 /\ \A j \in 1 .. i - 1 : Shown(j, c) = 0}
Counted(c) == {i \in (1 .. Len(pictures)) \ First(c) : \A j \in i .. Len(pictures) : Shown(j, c) > 0}

MostCounted ==
  \A c \in Keys(counts) :
    /\ counts[c] = 1 \/ \E i \in Counted(c) : counts[c] = Shown(i, c)
    /\ \A i \in Counted(c) : Shown(i, c) <= counts[c]

\* The maximum of a set of numbers is the one element no other exceeds.
LEMMA MaxIs ==
  ASSUME NEW S \in SUBSET Int, NEW m \in S, \A y \in S : y <= m
  PROVE  Max(S) = m
<1>1. \A y \in S : m >= y
  OBVIOUS
<1>2. Max(S) \in S /\ \A y \in S : Max(S) >= y
  BY <1>1 DEF Max
<1>3. Max(S) >= m /\ m >= Max(S) /\ Max(S) \in Int
  BY <1>1, <1>2
<1> QED BY <1>3

LEMMA MostCountedStep ==
  ASSUME EntryInv, MostCounted, NEW picture \in Picture, QueueData(picture)
  PROVE  MostCounted'
<1> DEFINE new == GroupClasses(picture)
<1>0. PICK n : n = Len(pictures)
  OBVIOUS
<1>1. /\ n \in Nat /\ Len(pictures') = n + 1 /\ new \in Counts /\ counts \in Counts
      /\ \A c \in Classes :
           /\ \A i \in 1 .. n : Shown(i, c) \in Nat /\ Shown(i, c)' = Shown(i, c)
           /\ Shown(n + 1, c)' = new[c]
  BY <1>0, PictureAdded DEF EntryInv, TypeOK
<1>2. SUFFICES ASSUME NEW c \in Classes, c \in Keys(counts')
               PROVE  /\ counts'[c] = 1 \/ \E i \in Counted(c)' : counts'[c] = Shown(i, c)'
                      /\ \A i \in Counted(c)' : Shown(i, c)' <= counts'[c]
  BY DEF MostCounted, Keys
<1>3. /\ new[c] \in Nat /\ counts[c] \in Nat
      /\ counts'[c] = IF counts[c] > 0 /\ new[c] > 0 THEN IF counts[c] >= new[c] THEN counts[c] ELSE new[c]
                      ELSE IF counts[c] > 0 \/ new[c] > 0 THEN 1 ELSE 0
  BY <1>1, FindingsAssumption DEF QueueData, MergeCounts, Counts
<1>4. /\ \A i \in 1 .. n : Shown(i, c) \in Nat /\ Shown(i, c)' = Shown(i, c)
      /\ Shown(n + 1, c)' = new[c]
  BY <1>1
<1>5. \A i : /\ i \in First(c)  <=> i \in 1 .. n /\ Shown(i, c) > 0 /\ \A j \in 1 .. i - 1 : Shown(j, c) = 0
             /\ i \in Counted(c) <=> i \in 1 .. n /\ i \notin First(c) /\ \A j \in i .. n : Shown(j, c) > 0
  BY <1>0 DEF First, Counted
<1>6. \A i : /\ i \in First(c)'  <=> i \in 1 .. n + 1 /\ Shown(i, c)' > 0 /\ \A j \in 1 .. i - 1 : Shown(j, c)' = 0
             /\ i \in Counted(c)' <=> i \in 1 .. n + 1 /\ i \notin First(c)' /\ \A j \in i .. n + 1 : Shown(j, c)' > 0
  BY <1>1 DEF First, Counted
<1>7. counts[c] > 0 <=> \E i \in 1 .. n : Shown(i, c) > 0
  BY <1>0, <1>1 DEF EntryInv, ClassesKept, Keys
<1> HIDE DEF new
<1>8. CASE new[c] = 0
  <2>1. \A i : i \notin Counted(c)'
    <3> SUFFICES ASSUME NEW i, i \in Counted(c)' PROVE FALSE
      OBVIOUS
    <3>1. i \in 1 .. n + 1 /\ n + 1 \in i .. n + 1
      BY <1>6, <1>1
    <3> QED BY <3>1, <1>6, <1>4, <1>8
  <2> QED BY <2>1, <1>3, <1>8, <1>2 DEF Keys
<1>9. CASE new[c] > 0 /\ counts[c] = 0
  <2>1. \A i \in 1 .. n : Shown(i, c)' = 0
    BY <1>7, <1>9, <1>4
  <2>2. \A i : i \notin Counted(c)'
    <3> SUFFICES ASSUME NEW i, i \in Counted(c)' PROVE FALSE
      OBVIOUS
    <3>1. i \in 1 .. n + 1 /\ i \in i .. n + 1 /\ Shown(i, c)' > 0
      BY <1>6, <1>1
    <3>2. i = n + 1
      BY <3>1, <2>1, <1>1
    <3>3. i \in First(c)'
      BY <3>1, <3>2, <2>1, <1>6, <1>1
    <3> QED BY <3>3, <1>6
  <2> QED BY <2>2, <1>3, <1>9
<1>10. CASE new[c] > 0 /\ counts[c] > 0
  <2>1. PICK k \in 1 .. n : Shown(k, c) > 0
    BY <1>7, <1>10
  <2>2. n + 1 \notin First(c)'
    <3>1. k \in 1 .. (n + 1) - 1 /\ Shown(k, c)' > 0
      BY <2>1, <1>4, <1>1
    <3> QED BY <3>1, <1>6
  <2>3. ASSUME NEW i \in 1 .. n PROVE i \in First(c)' <=> i \in First(c)
    <3>1. i \in 1 .. n + 1 /\ \A j \in 1 .. i - 1 : j \in 1 .. n
      BY <1>1
    <3> QED BY <3>1, <1>4, <1>5, <1>6
  <2>4. n + 1 \in Counted(c)'
    <3>1. n + 1 \in 1 .. n + 1 /\ \A j \in n + 1 .. n + 1 : j = n + 1
      BY <1>1
    <3> QED BY <3>1, <2>2, <1>6, <1>4, <1>10
  <2>5. ASSUME NEW i \in 1 .. n PROVE i \in Counted(c)' <=> i \in Counted(c)
    <3>1. i \in 1 .. n + 1 /\ \A j \in i .. n : j \in 1 .. n /\ j \in i .. n + 1
      BY <1>1
    <3>2. \A j \in i .. n + 1 : j \in i .. n \/ j = n + 1
      BY <1>1
    <3> QED BY <3>1, <3>2, <2>3, <1>4, <1>5, <1>6, <1>10
  <2>6. /\ counts[c] = 1 \/ \E i \in Counted(c) : counts[c] = Shown(i, c)
        /\ \A i \in Counted(c) : Shown(i, c) <= counts[c]
    BY <1>10 DEF MostCounted, Keys
  <2>7. \A i \in Counted(c) : i \in 1 .. n /\ i \in Counted(c)' /\ Shown(i, c)' = Shown(i, c)
    BY <1>5, <2>5, <1>4
  <2>8. \A i \in Counted(c)' : i = n + 1 \/ (i \in Counted(c) /\ Shown(i, c)' = Shown(i, c))
    BY <1>6, <2>5, <1>4, <1>1
  <2>9. CASE counts[c] >= new[c]
    <3>1. counts'[c] = counts[c]
      BY <2>9, <1>3, <1>10
    <3>2. counts'[c] = 1 \/ \E i \in Counted(c)' : counts'[c] = Shown(i, c)'
      BY <3>1, <2>6, <2>7
    <3>3. ASSUME NEW i \in Counted(c)' PROVE Shown(i, c)' <= counts'[c]
      BY <3>1, <2>6, <2>8, <2>9, <1>4
    <3> QED BY <3>2, <3>3
  <2>10. CASE ~ (counts[c] >= new[c])
    <3>1. counts'[c] = new[c] /\ counts[c] < new[c]
      BY <2>10, <1>3, <1>10
    <3>2. \E i \in Counted(c)' : counts'[c] = Shown(i, c)'
      BY <3>1, <2>4, <1>4
    <3>3. ASSUME NEW i \in Counted(c)' PROVE Shown(i, c)' <= counts'[c]
      <4>1. CASE i = n + 1
        BY <4>1, <3>1, <1>4, <1>3
      <4>2. CASE i \in Counted(c) /\ Shown(i, c)' = Shown(i, c)
        BY <4>2, <3>1, <2>6, <1>3, <1>5, <1>4
      <4> QED BY <4>1, <4>2, <2>8
    <3> QED BY <3>2, <3>3
  <2> QED BY <2>9, <2>10
<1> QED BY <1>3, <1>8, <1>9, <1>10

\* What a count in a report means (CountsExplained): the most objects seen at
\* once in the pictures that show the class without a gap since it came.
THEOREM CountsMeaning == Spec => []CountsExplained
<1>1. Init => MostCounted
  BY NoCountsKeys DEF Init, MostCounted
<1>2. EntryInv /\ MostCounted /\ [Next]_vars => MostCounted'
  <2> SUFFICES ASSUME EntryInv, MostCounted, [Next]_vars PROVE MostCounted'
    OBVIOUS
  <2>1. ASSUME ClearEntry PROVE MostCounted'
    BY <2>1, NoCountsKeys DEF ClearEntry, MostCounted
  <2>2. ASSUME NEW picture \in Picture, QueueData(picture) PROVE MostCounted'
    BY <2>2, MostCountedStep
  <2>3. ASSUME UNCHANGED vars PROVE MostCounted'
    <3>1. pictures' = pictures /\ counts' = counts
      BY <2>3 DEF vars
    <3>2. ASSUME NEW i, NEW c PROVE Shown(i, c)' = Shown(i, c)
      BY <3>1 DEF Shown
    <3>3. ASSUME NEW c PROVE First(c)' = First(c)
      BY <3>1, <3>2 DEF First
    <3>4. ASSUME NEW c PROVE Counted(c)' = Counted(c)
      BY <3>1, <3>2, <3>3 DEF Counted
    <3> QED BY <3>1, <3>2, <3>4 DEF MostCounted
  <2> QED BY <2>1, <2>2, <2>3 DEF Next
<1>3. EntryInv /\ MostCounted => CountsExplained
  <2> SUFFICES ASSUME EntryInv, MostCounted, NEW c \in Keys(counts)
               PROVE  counts[c] = Max({1} \cup {Shown(i, c) : i \in Counted(c)})
    BY DEF CountsExplained, Counted, First
  <2> DEFINE S == {1} \cup {Shown(i, c) : i \in Counted(c)}
  <2>1. counts[c] \in Nat /\ counts[c] > 0 /\ c \in Classes
    BY FindingsAssumption DEF EntryInv, TypeOK, Keys, Counts
  <2>2. /\ counts[c] = 1 \/ \E i \in Counted(c) : counts[c] = Shown(i, c)
        /\ \A i \in Counted(c) : Shown(i, c) <= counts[c]
    BY DEF MostCounted
  <2>3. \A i \in Counted(c) : Shown(i, c) \in Int
    <3> SUFFICES ASSUME NEW i \in Counted(c) PROVE Shown(i, c) \in Int
      OBVIOUS
    <3>1. pictures[i] \in Picture
      BY DEF Counted, EntryInv
    <3>2. Cardinality(Certain(pictures[i], c)) \in Nat
      BY <3>1, <2>1, CertainCount, FindingsAssumption
    <3> QED BY <3>2 DEF Shown, Certain
  <2>4. S \in SUBSET Int /\ counts[c] \in S /\ \A y \in S : y <= counts[c]
    BY <2>1, <2>2, <2>3
  <2> HIDE DEF S
  <2>5. Max(S) = counts[c]
    BY <2>4, MaxIs
  <2> QED BY <2>5 DEF S
<1> QED BY <1>1, <1>2, <1>3, InitEntry, EntryStep, PTL DEF Spec
=============================================================================
