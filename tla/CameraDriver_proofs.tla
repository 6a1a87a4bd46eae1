------------------------ MODULE CameraDriver_proofs ------------------------
(***************************************************************************)
(* Proofs about the frame pipeline, for every number of frame buffers and  *)
(* every size of the queues.                                               *)
(***************************************************************************)
EXTENDS CameraDriver, FiniteSetTheorems, SequenceTheorems, TLAPS

-----------------------------------------------------------------------------
(* Type correctness.                                                       *)

\* What an interrupt makes of a typed queue and bad flags.
LEMMA SignalType ==
  ASSUME TypeOK
  PROVE  /\ Signal(dataReady, bad).queue \in Seq({"buf", "eof"})
         /\ Signal(dataReady, bad).bad \in [Fbs -> BOOLEAN]
<1>1. Signal(dataReady, bad).queue \in Seq({"buf", "eof"})
  BY DEF TypeOK, Signal
<1>2. Signal(dataReady, bad).bad \in [Fbs -> BOOLEAN]
  BY DEF TypeOK, Signal
<1> QED BY <1>1, <1>2

\* i2s_stop keeps the types.
LEMMA StopType ==
  ASSUME TypeOK, NEW s, NEW stopping \in BOOLEAN,
         s.queue \in Seq({"buf", "eof"}), s.bad \in [Fbs -> BOOLEAN],
         Stop(s, stopping)
  PROVE  /\ bad' \in [Fbs -> BOOLEAN]
         /\ dataReady' \in Seq({"buf", "eof"})
         /\ rx' \in BOOLEAN /\ i2sIntr' \in BOOLEAN /\ vsyncIntr' \in BOOLEAN
<1>1. SendEof(s.queue) \in Seq({"buf", "eof"})
  BY DEF SendEof
<1> QED BY <1>1 DEF Stop, TypeOK

\* i2s_start_bus keeps the types.
LEMMA StartBusType ==
  ASSUME TypeOK, StartBus
  PROVE  /\ received' \in Nat /\ rx' \in BOOLEAN
         /\ i2sIntr' \in BOOLEAN /\ vsyncIntr' \in BOOLEAN
BY ParamAssumption DEF TypeOK, StartBus

\* A link of the ring leads to a frame buffer.
LEMMA NextFbType == ASSUME NEW i \in Fbs PROVE NextFb(i) \in Fbs
BY ParamAssumption DEF Fbs, NextFb

\* Every step keeps every variable in its type.
LEMMA TypeStep == TypeOK /\ [Next]_vars => TypeOK'
<1> SUFFICES ASSUME TypeOK, [Next]_vars PROVE TypeOK'
  OBVIOUS
<1> USE ParamAssumption
<1>1. ASSUME I2sIsr PROVE TypeOK'
  <2> DEFINE s == Signal(dataReady, bad)
             last == ~ Jpeg /\ received + 1 = FrameBufs
  <2>1. Stop(s, last) /\ received' \in Nat
    BY <1>1 DEF I2sIsr, TypeOK
  <2>2. last \in BOOLEAN
    OBVIOUS
  <2>3. /\ bad' \in [Fbs -> BOOLEAN]
        /\ dataReady' \in Seq({"buf", "eof"})
        /\ rx' \in BOOLEAN /\ i2sIntr' \in BOOLEAN /\ vsyncIntr' \in BOOLEAN
    <3> HIDE DEF s, last
    <3> QED BY <2>1, <2>2, SignalType, StopType DEF s
  <2> QED BY <1>1, <2>1, <2>3 DEF I2sIsr, TypeOK, exchange, user
<1>2. ASSUME VsyncIsr PROVE TypeOK'
  <2> DEFINE s == IF received > 0 THEN Signal(dataReady, bad)
                  ELSE [queue |-> dataReady, bad |-> bad]
             last == received > 0 /\ (filtered > 1 \/ ~ Single)
  <2>1. Stop(s, last) /\ received' \in Nat /\ isr' = "tail"
    BY <1>2 DEF VsyncIsr, TypeOK
  <2>2. last \in BOOLEAN
    OBVIOUS
  <2>3. s.queue \in Seq({"buf", "eof"}) /\ s.bad \in [Fbs -> BOOLEAN]
    BY SignalType DEF TypeOK
  <2>4. /\ bad' \in [Fbs -> BOOLEAN]
        /\ dataReady' \in Seq({"buf", "eof"})
        /\ rx' \in BOOLEAN /\ i2sIntr' \in BOOLEAN /\ vsyncIntr' \in BOOLEAN
    <3> HIDE DEF s, last
    <3> QED BY <2>1, <2>2, <2>3, StopType
  <2> QED BY <1>2, <2>1, <2>4 DEF VsyncIsr, TypeOK, exchange, user
<1>3. CASE VsyncTail
  <2>1. rx' \in BOOLEAN /\ isr' \in {"idle", "tail", "restart"}
    <3>1. CASE rx' = FALSE /\ isr' = "restart"
      BY <3>1
    <3>2. CASE UNCHANGED rx /\ isr' = "idle"
      BY <3>2 DEF TypeOK
    <3> QED BY <1>3, <3>1, <3>2 DEF VsyncTail
  <2>2. UNCHANGED <<frames, received, i2sIntr, vsyncIntr, filtered, dataReady, exchange, task, cur, user>>
    BY <1>3 DEF VsyncTail
  <2> QED BY <2>1, <2>2 DEF TypeOK, frames, exchange, user
<1>4. CASE VsyncRestart
  BY <1>4 DEF VsyncRestart, TypeOK, frames, exchange, user
<1>5. CASE FilterReceive
  BY <1>5 DEF FilterReceive, TypeOK, frames, bus, exchange, user
<1>6. CASE FilterBuffer
  <2>1. pixels' \in [Fbs -> 0 .. FbBufs] /\ filtered' \in 0 .. FbBufs
    <3>1. CASE UNCHANGED <<bad, pixels, filtered>>
      BY <3>1 DEF TypeOK
    <3>2. CASE /\ filtered < FbBufs
               /\ pixels' = [pixels EXCEPT ![fb] = filtered + 1]
               /\ filtered' \in {filtered, filtered + 1}
      <4>1. filtered \in 0 .. FbBufs /\ filtered + 1 \in 0 .. FbBufs
        BY <3>2 DEF TypeOK
      <4> QED BY <3>2, <4>1 DEF TypeOK
    <3> QED BY <1>6, <3>1, <3>2 DEF FilterBuffer
  <2>2. bad' \in [Fbs -> BOOLEAN]
    <3>1. \/ bad' = bad
          \/ \E good \in BOOLEAN : bad' = [bad EXCEPT ![fb] = ~ good]
      BY <1>6 DEF FilterBuffer
    <3>2. \A x \in BOOLEAN : [bad EXCEPT ![fb] = ~ x] \in [Fbs -> BOOLEAN]
      BY Zenon DEF TypeOK
    <3> QED BY <3>1, <3>2 DEF TypeOK
  <2> QED BY <1>6, <2>1, <2>2 DEF FilterBuffer, TypeOK, bus, exchange, user
<1>7. CASE FinishBad
  <2>1. /\ received' \in Nat /\ rx' \in BOOLEAN
        /\ i2sIntr' \in BOOLEAN /\ vsyncIntr' \in BOOLEAN
    BY <1>7, StartBusType DEF FinishBad, TypeOK, bus
  <2> QED BY <1>7, <2>1 DEF FinishBad, TypeOK, exchange, user
<1>8. CASE FinishGood
  <2>1. /\ received' \in Nat /\ rx' \in BOOLEAN
        /\ i2sIntr' \in BOOLEAN /\ vsyncIntr' \in BOOLEAN
    BY <1>8, StartBusType DEF FinishGood, TypeOK, bus
  <2> QED BY <1>8, <2>1 DEF FinishGood, TypeOK, exchange, user
<1>9. CASE FinishReferenced
  BY <1>9 DEF FinishReferenced, TypeOK, frames, bus, exchange, user
<1>10. CASE FinishReset
  BY <1>10 DEF FinishReset, TypeOK, frames, bus, exchange, user
<1>11. CASE FbDoneSingle
  BY <1>11 DEF FbDoneSingle, TypeOK, frames, bus, user
<1>12. CASE FbDone
  <2>1. ref' \in [Fbs -> BOOLEAN] /\ cur' \in Fbs
    BY <1>12 DEF FbDone, TypeOK
  <2>2. fbOut' = fbOut \/ fbOut' = <<fb>>
    BY <1>12 DEF FbDone
  <2>3. <<fb>> \in Seq(Fbs) /\ Len(<<fb>>) = 1
    BY DEF TypeOK
  <2>4. fbOut' \in Seq(Fbs) /\ Len(fbOut') <= 1
    <3>1. CASE fbOut' = fbOut
      BY <3>1 DEF TypeOK
    <3>2. CASE fbOut' = <<fb>>
      BY <3>2, <2>3
    <3> QED BY <2>2, <3>1, <3>2
  <2> QED BY <1>12, <2>1, <2>4 DEF FbDone, TypeOK, bus, user
<1>13. CASE FbReplace
  BY <1>13 DEF FbReplace, TypeOK, bus, user
<1>14. CASE FbReplaceFails
  BY <1>14 DEF FbReplaceFails, TypeOK, frames, bus, exchange, user
<1>15. CASE FbDrain
  <2> DEFINE r == [i \in Fbs |-> ref[i] /\ i \notin ToSet(fbIn)]
             l == [i \in Fbs |-> IF i \in ToSet(fbIn) THEN 0 ELSE len[i]]
  <2>1. r \in [Fbs -> BOOLEAN] /\ l \in [Fbs -> 0 .. FbBufs]
    <3>1. 0 \in 0 .. FbBufs
      BY DEF TypeOK
    <3>2. r \in [Fbs -> BOOLEAN]
      OBVIOUS
    <3>3. \A i \in Fbs : len[i] \in 0 .. FbBufs
      BY DEF TypeOK
    <3>4. l \in [Fbs -> 0 .. FbBufs]
      BY <3>1, <3>3
    <3> QED BY <3>2, <3>4
  <2>2. /\ ref' = r
        /\ \E j \in Fbs : /\ fb' = IF r[j] THEN cur ELSE j
                          /\ len' = IF r[j] THEN l ELSE [l EXCEPT ![j] = 0]
                          /\ pixels' = IF r[j] THEN pixels ELSE [pixels EXCEPT ![j] = 0]
    BY <1>15 DEF FbDrain
  <2> HIDE DEF r, l
  <2>3. /\ ref' \in [Fbs -> BOOLEAN] /\ fb' \in Fbs
        /\ len' \in [Fbs -> 0 .. FbBufs] /\ pixels' \in [Fbs -> 0 .. FbBufs]
    <3>1. PICK j \in Fbs : /\ fb' = IF r[j] THEN cur ELSE j
                           /\ len' = IF r[j] THEN l ELSE [l EXCEPT ![j] = 0]
                           /\ pixels' = IF r[j] THEN pixels ELSE [pixels EXCEPT ![j] = 0]
      BY <2>2
    <3>2. 0 \in 0 .. FbBufs /\ cur \in Fbs /\ pixels \in [Fbs -> 0 .. FbBufs]
      BY DEF TypeOK
    <3>3. CASE r[j]
      BY <2>1, <2>2, <3>1, <3>2, <3>3
    <3>4. CASE ~ r[j]
      BY <2>1, <2>2, <3>1, <3>2, <3>4
    <3> QED BY <3>3, <3>4
  <2>4. /\ fbIn' = <<>> /\ task' = "reset"
        /\ UNCHANGED <<bad, bus, filtered, dataReady, fbOut, frameReady, isr, cur, user>>
    BY <1>15 DEF FbDrain
  <2>5. fbIn' \in Seq(Fbs) /\ task' \in {"receive", "filter", "finish", "done", "replace", "drain", "reset"}
    BY <2>4
  <2>6. /\ bad' \in [Fbs -> BOOLEAN] /\ cur' \in Fbs /\ scan' \in Fbs
        /\ rx' \in BOOLEAN /\ i2sIntr' \in BOOLEAN /\ vsyncIntr' \in BOOLEAN
        /\ frameReady' \in BOOLEAN
    BY <2>4 DEF TypeOK, bus, user
  <2> QED BY <2>3, <2>4, <2>5, <2>6 DEF TypeOK, bus, user
<1>16. CASE FbGet
  BY <1>16 DEF FbGet, TypeOK, frames, bus, exchange
<1>17. CASE RunFindFree
  BY <1>17 DEF RunFindFree, TypeOK, bus, exchange
<1>18. CASE RunStart
  BY <1>18, StartBusType DEF RunStart, TypeOK, frames, exchange
<1>19. CASE TakeFrameReady
  BY <1>19 DEF TakeFrameReady, TypeOK, frames, bus
<1>20. CASE TakeFbOut
  BY <1>20 DEF TakeFbOut, TypeOK, frames, bus
<1>21. CASE FbReturn
  <2>1. held' \in SUBSET Fbs
    BY <1>21 DEF FbReturn, TypeOK
  <2>2. fbIn' \in Seq(Fbs)
    <3>1. \E i \in Fbs : fbIn' = fbIn \/ fbIn' = Append(fbIn, i)
      BY <1>21 DEF FbReturn, TypeOK
    <3>2. \A i \in Fbs : Append(fbIn, i) \in Seq(Fbs)
      BY DEF TypeOK
    <3> QED BY <3>1, <3>2 DEF TypeOK
  <2> QED BY <1>21, <2>1, <2>2 DEF FbReturn, TypeOK, frames, bus
<1>22. CASE UNCHANGED vars
  <2> USE <1>22 DEF vars
  <2>1. UNCHANGED frames /\ UNCHANGED bus /\ UNCHANGED exchange /\ UNCHANGED user
    OBVIOUS
  <2>2. UNCHANGED <<filtered, dataReady, isr, task, cur>>
    OBVIOUS
  <2> QED BY <2>1, <2>2 DEF TypeOK, frames, bus, exchange, user
<1> QED
  BY <1>1, <1>2, <1>3, <1>4, <1>5, <1>6, <1>7, <1>8, <1>9, <1>10, <1>11, <1>12,
     <1>13, <1>14, <1>15, <1>16, <1>17, <1>18, <1>19, <1>20, <1>21, <1>22
  DEF Next, Interrupts, Filter, Consumer

\* Every variable starts in its type.
LEMMA InitType == Init => TypeOK
<1> SUFFICES ASSUME Init PROVE TypeOK
  OBVIOUS
<1> USE ParamAssumption DEF Init, Fbs
<1>1. fb \in Fbs /\ cur \in Fbs /\ scan \in Fbs
  OBVIOUS
<1>2. /\ ref \in [Fbs -> BOOLEAN] /\ bad \in [Fbs -> BOOLEAN]
      /\ len \in [Fbs -> 0 .. FbBufs] /\ pixels \in [Fbs -> 0 .. FbBufs]
  OBVIOUS
<1>3. /\ dataReady \in Seq({"buf", "eof"})
      /\ fbOut \in Seq(Fbs) /\ Len(fbOut) <= 1 /\ fbIn \in Seq(Fbs)
  OBVIOUS
<1>4. received \in Nat /\ filtered \in 0 .. FbBufs /\ held \in SUBSET Fbs
  OBVIOUS
<1> QED BY <1>1, <1>2, <1>3, <1>4 DEF TypeOK

\* The pipeline keeps every variable in its type; in particular the filter
\* task never counts past the end of a frame buffer (dma_filter_buffer's test
\* for space) whatever the interrupts do.
THEOREM TypeCorrect == Spec => []TypeOK
<1>1. Init => TypeOK
  BY InitType
<1>2. TypeOK /\ [Next]_vars => TypeOK'
  BY TypeStep
<1> QED BY <1>1, <1>2, PTL DEF Spec
-----------------------------------------------------------------------------
(* The inductive invariant.                                                *)

InCirculation(i) == i \in held \cup ToSet(fbOut) \cup ToSet(fbIn)

\* Several buffers: circulation, and the buffer of camera_fb_done that is
\* referenced but not yet in fb_out is nowhere else.
RingInv ==
  /\ Circulation
  /\ task = "replace" =>
       ~ Single /\ ref[cur] /\ len[cur] > 0 /\ ~ InCirculation(cur)

\* The interrupts or the filter task may still write the buffer.
Active ==
  \/ i2sIntr \/ vsyncIntr \/ dataReady # <<>>
  \/ task \in {"filter", "finish", "done"}

BusOff == ~ i2sIntr /\ ~ vsyncIntr

\* An end mark is the last entry, and is only sent when the bus is switched off.
EofLast(q, off) == \A k \in 1 .. Len(q) : q[k] = "eof" => k = Len(q) /\ off

\* One buffer: the pipeline is only active while the consumer waits for a
\* frame it has not got, and an end mark is the last thing in the queue.
SingleInv ==
  Single =>
    /\ fbOut = <<>> /\ fbIn = <<>>
    /\ task \notin {"replace", "drain"}
    /\ \A i \in Fbs : ~ ref[i]
    /\ Active => consumer = "wait" /\ ~ frameReady
    /\ frameReady => consumer = "wait"
    /\ consumer # "idle" => held = {}
    /\ EofLast(dataReady, BusOff)
    /\ task \in {"finish", "done"} => dataReady = <<>> /\ BusOff
    /\ bad[fb] => Jpeg /\ filtered = 0

IInv == TypeOK /\ RingInv /\ SingleInv

-----------------------------------------------------------------------------
(* Elements of the short queues.                                           *)

\* What a queue that grew by one contains.
LEMMA AppendElements ==
  ASSUME NEW S, NEW q \in Seq(S), NEW x \in S
  PROVE  ToSet(Append(q, x)) = ToSet(q) \cup {x}
<1>1. /\ Append(q, x) \in Seq(S) /\ Len(Append(q, x)) = Len(q) + 1
      /\ \A k \in 1 .. Len(q) : Append(q, x)[k] = q[k]
      /\ Append(q, x)[Len(q) + 1] = x
  BY AppendProperties
<1>2. DOMAIN Append(q, x) = 1 .. Len(q) + 1 /\ DOMAIN q = 1 .. Len(q)
  BY <1>1, LenProperties
<1>3. Len(q) \in Nat
  BY LenProperties
<1>4. 1 .. Len(q) + 1 = 1 .. Len(q) \cup {Len(q) + 1}
  BY <1>3
<1> QED BY <1>1, <1>2, <1>4 DEF ToSet

\* What the one-place queue fb_out contains.
LEMMA QueueElements ==
  ASSUME NEW S, NEW q \in Seq(S), NEW x \in S
  PROVE  /\ ToSet(<<x>>) = {x}
         /\ ToSet(<<>>) = {}
         /\ Len(q) <= 1 /\ q # <<>> =>
              ToSet(q) = {Head(q)} /\ Tail(q) = <<>> /\ Head(q) \in S
<1>1. ToSet(<<x>>) = {x}
  BY DEF ToSet
<1>2. ToSet(<<>>) = {}
  BY DEF ToSet
<1>3. ASSUME Len(q) <= 1, q # <<>>
      PROVE  ToSet(q) = {Head(q)} /\ Tail(q) = <<>> /\ Head(q) \in S
  <2>1. Len(q) = 1
    <3>1. Len(q) \in Nat \ {0}
      BY <1>3, EmptySeq
    <3>2. \A n \in Nat \ {0} : n <= 1 => n = 1
      OBVIOUS
    <3> QED BY <1>3, <3>1, <3>2, Zenon
  <2>2. DOMAIN q = {1} /\ Head(q) = q[1] /\ q[1] \in S
    BY <2>1, LenProperties, ElementOfSeq
  <2>3. Tail(q) \in Seq(S) /\ Len(Tail(q)) = 0
    BY <1>3, <2>1, HeadTailProperties
  <2>4. Tail(q) = <<>>
    BY <2>3, EmptySeq
  <2> QED BY <2>2, <2>4 DEF ToSet
<1> QED BY <1>1, <1>2, <1>3

\* Only frame buffers circulate.
LEMMA CirculatingType ==
  ASSUME TypeOK
  PROVE  /\ held \cup ToSet(fbOut) \cup ToSet(fbIn) \subseteq Fbs
         /\ fbOut \in Seq(Fbs) /\ Len(fbOut) <= 1 /\ fbIn \in Seq(Fbs)
BY DEF TypeOK, ToSet

-----------------------------------------------------------------------------
(* Several buffers.                                                        *)

\* A step that leaves the exchange of buffers alone keeps RingInv.
LEMMA RingFrame ==
  ASSUME RingInv, UNCHANGED <<held, fbOut, fbIn, ref, len, cur>>,
         task' = "replace" => task = "replace"
  PROVE  RingInv'
BY DEF RingInv, Circulation, InCirculation, Single

LEMMA RingStep ==
  ASSUME TypeOK, RingInv, ~ Single, [Next]_vars
  PROVE  RingInv'
<1> USE ParamAssumption
<1>1. CASE Interrupts
  <2>1. UNCHANGED <<ref, len, exchange, task, cur, user>>
    BY <1>1 DEF Interrupts, I2sIsr, VsyncIsr, VsyncTail, VsyncRestart, frames
  <2> QED BY <2>1, RingFrame DEF exchange, user
<1>2. CASE FilterReceive
  BY <1>2, RingFrame DEF FilterReceive, frames, exchange, user
<1>3. CASE FilterBuffer
  BY <1>3, RingFrame DEF FilterBuffer, exchange, user
<1>4. CASE FinishBad \/ FinishGood
  <2>1. /\ UNCHANGED <<ref, fbOut, fbIn, held, cur>> /\ task' # "replace"
        /\ ~ ref[fb]
        /\ \A i \in Fbs : i # fb => len'[i] = len[i]
    BY <1>4 DEF FinishBad, FinishGood, exchange, user, TypeOK
  <2>2. \A i \in held \cup ToSet(fbOut) \cup ToSet(fbIn) : i \in Fbs
    BY DEF TypeOK, ToSet
  <2> QED BY <2>1, <2>2 DEF RingInv, Circulation, Single
<1>5. CASE FinishReferenced
  BY <1>5, RingFrame DEF FinishReferenced, frames, exchange, user
<1>6. CASE FinishReset
  BY <1>6, RingFrame DEF FinishReset, frames, exchange, user
<1>7. CASE FbDoneSingle
  BY <1>7 DEF FbDoneSingle
<1>8. CASE FbDone
  <2>1. CASE ref[fb] \/ len[fb] = 0
    <3>1. UNCHANGED <<held, fbOut, fbIn, ref, len>> /\ task' = "drain"
      BY <1>8, <2>1 DEF FbDone, user
    <3> QED BY <3>1 DEF RingInv, Circulation, Single
  <2>2. CASE ~ ref[fb] /\ len[fb] > 0
    <3>1. /\ UNCHANGED <<held, fbIn, len>>
          /\ cur' = fb /\ ref' = [ref EXCEPT ![fb] = TRUE]
          /\ \/ task' = "replace" /\ fbOut' = fbOut
             \/ task' = "drain" /\ fbOut = <<>> /\ fbOut' = <<fb>>
      BY <1>8, <2>2 DEF FbDone, user
    <3>2. ~ InCirculation(fb)
      BY <2>2 DEF RingInv, Circulation, InCirculation
    <3>3. ref'[fb] /\ \A i \in Fbs : ref[i] => ref'[i]
      BY <3>1 DEF TypeOK
    <3>4. \A i : InCirculation(i) => i \in Fbs
      BY DEF InCirculation, TypeOK, ToSet
    <3>5. CASE task' = "replace" /\ fbOut' = fbOut
      <4>1. \A i : InCirculation(i)' <=> InCirculation(i)
        BY <3>1, <3>5 DEF InCirculation
      <4>2. Circulation'
        BY <3>1, <3>3, <3>4, <3>5 DEF RingInv, Circulation, InCirculation, Single
      <4> QED BY <2>2, <3>1, <3>2, <3>3, <4>1, <4>2 DEF RingInv, InCirculation, Single
    <3>6. CASE task' = "drain" /\ fbOut = <<>> /\ fbOut' = <<fb>>
      <4>1. ToSet(fbOut) = {} /\ ToSet(fbOut') = {fb}
        BY <3>6, QueueElements DEF TypeOK
      <4>2. Circulation'
        BY <2>2, <3>1, <3>2, <3>3, <3>4, <4>1 DEF RingInv, Circulation, InCirculation, Single
      <4> QED BY <3>6, <4>2 DEF RingInv
    <3> QED BY <3>1, <3>5, <3>6
  <2> QED BY <1>8, <2>1, <2>2 DEF FbDone
<1>9. CASE FbReplace
  <2>1. ToSet(fbOut) = {Head(fbOut)} /\ Head(fbOut) \in Fbs /\ ToSet(<<cur>>) = {cur}
    BY <1>9, QueueElements DEF FbReplace, TypeOK
  <2>2. /\ UNCHANGED <<held, fbIn>> /\ fbOut' = <<cur>> /\ task' = "drain"
        /\ \A i \in Fbs : i # Head(fbOut) => ref'[i] = ref[i] /\ len'[i] = len[i]
    BY <1>9, <2>1 DEF FbReplace, user, TypeOK
  <2>3. ref[cur] /\ len[cur] > 0 /\ ~ InCirculation(cur)
    BY <1>9 DEF FbReplace, TaskAt, RingInv
  <2>4. \A i : InCirculation(i) => i \in Fbs
    BY DEF InCirculation, TypeOK, ToSet
  <2>5. /\ ToSet(fbOut') = {cur} /\ cur # Head(fbOut)
        /\ Head(fbOut) \notin held \cup ToSet(fbIn)
    BY <2>1, <2>2, <2>3 DEF RingInv, Circulation, InCirculation
  <2>6. \A i \in held \cup ToSet(fbOut') \cup ToSet(fbIn) : ref'[i] /\ len'[i] > 0
    <3> SUFFICES ASSUME NEW i \in held \cup {cur} \cup ToSet(fbIn)
                 PROVE  ref'[i] /\ len'[i] > 0
      BY <2>5
    <3>1. i # Head(fbOut)
      BY <2>5
    <3>2. ref[i] /\ len[i] > 0 /\ i \in Fbs
      BY <2>3, <2>4, <1>9 DEF RingInv, Circulation, InCirculation, TypeOK
    <3> QED BY <2>2, <3>1, <3>2
  <2>7. Circulation'
    BY <2>2, <2>3, <2>5, <2>6 DEF RingInv, Circulation, InCirculation, Single
  <2> QED BY <2>2, <2>7 DEF RingInv
<1>10. CASE FbReplaceFails
  BY <1>10, RingFrame DEF FbReplaceFails, frames, exchange, user
<1>11. CASE FbDrain
  <2> DEFINE r == [i \in Fbs |-> ref[i] /\ i \notin ToSet(fbIn)]
             l == [i \in Fbs |-> IF i \in ToSet(fbIn) THEN 0 ELSE len[i]]
  <2>1. /\ UNCHANGED <<held, fbOut>> /\ fbIn' = <<>> /\ task' = "reset" /\ ref' = r
        /\ \E j \in Fbs : len' = IF r[j] THEN l ELSE [l EXCEPT ![j] = 0]
    BY <1>11 DEF FbDrain, user
  <2>2. \A i \in Fbs : r[i] => len'[i] = len[i]
    BY <2>1
  <2>3. ToSet(fbIn') = {}
    BY <2>1 DEF ToSet
  <2>4. \A i \in held \cup ToSet(fbOut) : i \in Fbs /\ ref'[i] /\ len'[i] > 0
    <3> SUFFICES ASSUME NEW i \in held \cup ToSet(fbOut)
                 PROVE  i \in Fbs /\ ref'[i] /\ len'[i] > 0
      OBVIOUS
    <3>1. i \in Fbs /\ i \notin ToSet(fbIn) /\ ref[i] /\ len[i] > 0
      BY CirculatingType DEF RingInv, Circulation
    <3>2. r[i]
      BY <3>1
    <3> QED BY <2>1, <2>2, <3>1, <3>2
  <2>5. \A i \in held' \cup ToSet(fbOut') \cup ToSet(fbIn') : ref'[i] /\ len'[i] > 0
    BY <2>1, <2>3, <2>4
  <2>6. \A a, b \in 1 .. Len(fbIn') : fbIn'[a] = fbIn'[b] => a = b
    BY <2>1
  <2>7. Circulation'
    <3> HIDE DEF r, l
    <3> QED BY <2>1, <2>3, <2>5, <2>6 DEF RingInv, Circulation
  <2> QED BY <2>1, <2>7 DEF RingInv
<1>12. CASE FbGet \/ RunFindFree \/ RunStart
  BY <1>12, RingFrame DEF FbGet, RunFindFree, RunStart, frames, exchange
<1>13. CASE TakeFrameReady
  BY <1>13 DEF TakeFrameReady
<1>14. CASE TakeFbOut
  <2> fbOut \in Seq(Fbs) /\ Len(fbOut) <= 1 /\ fbOut # <<>> /\ fb \in Fbs
    BY <1>14, CirculatingType DEF TakeFbOut, TypeOK
  <2>1. ToSet(fbOut) = {Head(fbOut)} /\ Tail(fbOut) = <<>> /\ ToSet(Tail(fbOut)) = {}
    BY QueueElements
  <2>2. /\ UNCHANGED <<ref, len, fbIn, task, cur>>
        /\ fbOut' = Tail(fbOut) /\ held' = held \cup {Head(fbOut)}
    BY <1>14 DEF TakeFbOut, frames
  <2>3. held' \cup ToSet(fbOut') \cup ToSet(fbIn') = held \cup ToSet(fbOut) \cup ToSet(fbIn)
    BY <2>1, <2>2
  <2>4. Circulation'
    BY <2>1, <2>2, <2>3 DEF RingInv, Circulation, Single
  <2> QED BY <2>2, <2>3, <2>4 DEF RingInv, InCirculation, Single
<1>15. CASE FbReturn
  <2>1. PICK i \in held : /\ held' = held \ {i} /\ fbIn' = Append(fbIn, i)
                          /\ UNCHANGED <<ref, len, fbOut, task, cur>>
    BY <1>15 DEF FbReturn, frames
  <2> fbIn \in Seq(Fbs) /\ i \in Fbs
    BY CirculatingType
  <2>2. ToSet(fbIn') = ToSet(fbIn) \cup {i}
    <3>1. \A q \in Seq(Fbs), x \in Fbs : ToSet(Append(q, x)) = ToSet(q) \cup {x}
      BY AppendElements, Zenon
    <3>2. ToSet(Append(fbIn, i)) = ToSet(fbIn) \cup {i}
      BY <3>1
    <3> QED BY <2>1, <3>2
  <2>3. i \notin ToSet(fbIn)
    BY DEF RingInv, Circulation
  <2>4. \A a, b \in 1 .. Len(fbIn') : fbIn'[a] = fbIn'[b] => a = b
    <3>1. /\ Len(fbIn') = Len(fbIn) + 1 /\ fbIn'[Len(fbIn) + 1] = i
          /\ \A a \in 1 .. Len(fbIn) : fbIn'[a] = fbIn[a]
      BY <2>1, AppendProperties
    <3>2. \A a \in 1 .. Len(fbIn) : fbIn[a] # i
      BY <2>3, LenProperties DEF ToSet
    <3>3. Len(fbIn) \in Nat
      BY LenProperties
    <3>4. \A a, b \in 1 .. Len(fbIn) : fbIn[a] = fbIn[b] => a = b
      BY DEF RingInv, Circulation
    <3> SUFFICES ASSUME NEW a \in 1 .. Len(fbIn) + 1, NEW b \in 1 .. Len(fbIn) + 1,
                        fbIn'[a] = fbIn'[b]
                 PROVE  a = b
      BY <3>1
    <3>5. \A k \in 1 .. Len(fbIn) + 1 : k \in 1 .. Len(fbIn) \/ k = Len(fbIn) + 1
      BY <3>3
    <3> QED BY <3>1, <3>2, <3>4, <3>5
  <2>5. Circulation'
    BY <2>1, <2>2, <2>3, <2>4 DEF RingInv, Circulation, Single
  <2> QED BY <2>1, <2>2, <2>5 DEF RingInv, InCirculation, Single
<1>16. CASE UNCHANGED vars
  <2>1. UNCHANGED frames /\ UNCHANGED exchange /\ UNCHANGED user /\ UNCHANGED <<task, cur>>
    BY <1>16 DEF vars
  <2> QED BY <2>1, RingFrame DEF frames, exchange, user
<1> QED
  BY <1>1, <1>2, <1>3, <1>4, <1>5, <1>6, <1>7, <1>8, <1>9, <1>10, <1>11, <1>12,
     <1>13, <1>14, <1>15, <1>16
  DEF Next, Filter, Consumer
-----------------------------------------------------------------------------
(* One buffer.                                                             *)

\* The filter task keeps up: data_ready never fills.
KeepsUp == MaxBacklog < QueueLen

\* The only buffer is buffer 0.
LEMMA OneBuffer == Single => Fbs = {0}
BY DEF Single, Fbs

\* With room in data_ready signal_dma_buf_received marks no frame bad.
LEMMA SignalWithRoom ==
  ASSUME TypeOK, KeepsUp, Len(dataReady) < MaxBacklog
  PROVE  /\ Signal(dataReady, bad).bad = bad
         /\ \/ Signal(dataReady, bad).queue = dataReady
            \/ Signal(dataReady, bad).queue = Append(dataReady, "buf")
<1>1. Len(dataReady) \in Nat
  BY LenProperties DEF TypeOK
<1>2. ~ (Len(dataReady) >= QueueLen)
  BY <1>1, ParamAssumption DEF KeepsUp
<1> QED BY <1>2 DEF Signal

LEMMA EofLastStop ==
  ASSUME TypeOK, KeepsUp, Single, Len(dataReady) < MaxBacklog,
         EofLast(dataReady, FALSE),
         NEW s, s.bad = bad,
         s.queue = dataReady \/ s.queue = Append(dataReady, "buf"),
         NEW stopping \in BOOLEAN, stopping => ~ bad[fb],
         Stop(s, stopping)
  PROVE  bad' = bad /\ EofLast(dataReady', BusOff')
<1> dataReady \in Seq({"buf", "eof"})
  BY DEF TypeOK
<1>1. Len(dataReady) \in Nat
  BY LenProperties
<1>2. EofLast(Append(dataReady, "buf"), FALSE)
  <2>1. /\ Len(Append(dataReady, "buf")) = Len(dataReady) + 1
        /\ \A k \in 1 .. Len(dataReady) : Append(dataReady, "buf")[k] = dataReady[k]
        /\ Append(dataReady, "buf")[Len(dataReady) + 1] = "buf"
    BY AppendProperties
  <2> SUFFICES ASSUME NEW k \in 1 .. Len(dataReady) + 1,
                      Append(dataReady, "buf")[k] = "eof"
               PROVE  FALSE
    BY <2>1 DEF EofLast
  <2>2. k \in 1 .. Len(dataReady)
    BY <1>1, <2>1
  <2> QED BY <2>1, <2>2 DEF EofLast
<1>3. EofLast(s.queue, FALSE) /\ s.queue \in Seq({"buf", "eof"})
  <2>1. Append(dataReady, "buf") \in Seq({"buf", "eof"})
    OBVIOUS
  <2> QED BY <1>2, <2>1
<1>4. Len(s.queue) \in Nat /\ Len(s.queue) < QueueLen
  <2>1. Len(Append(dataReady, "buf")) = Len(dataReady) + 1
    OBVIOUS
  <2> QED BY <1>1, <2>1, ParamAssumption DEF KeepsUp
<1>5. bad' = bad
  BY DEF Stop
<1>6. CASE ~ stopping
  BY <1>3, <1>6 DEF Stop, EofLast
<1>7. CASE stopping
  <2>1. dataReady' = Append(s.queue, "eof") /\ BusOff'
    <3>1. dataReady' = SendEof(s.queue) /\ ~ i2sIntr' /\ ~ vsyncIntr'
      BY <1>7 DEF Stop, StopsBus
    <3>2. ~ (Len(s.queue) >= QueueLen)
      BY <1>4, ParamAssumption
    <3> QED BY <3>1, <3>2 DEF SendEof, BusOff
  <2>2. /\ Len(Append(s.queue, "eof")) = Len(s.queue) + 1
        /\ \A k \in 1 .. Len(s.queue) : Append(s.queue, "eof")[k] = s.queue[k]
    BY <1>3, AppendProperties
  <2> SUFFICES ASSUME NEW k \in 1 .. Len(s.queue) + 1,
                      Append(s.queue, "eof")[k] = "eof"
               PROVE  k = Len(s.queue) + 1
    BY <1>5, <2>1, <2>2 DEF EofLast
  <2>3. k \in 1 .. Len(s.queue) => FALSE
    BY <1>3, <2>2 DEF EofLast
  <2> QED BY <1>4, <2>3
<1> QED BY <1>5, <1>6, <1>7

LEMMA SingleStep ==
  ASSUME TypeOK, SingleInv, Single, KeepsUp, [Next]_vars
  PROVE  SingleInv'
<1> Fbs = {0} /\ fb = 0
  BY OneBuffer DEF TypeOK
<1> USE ParamAssumption
<1>1. ASSUME i2sIntr \/ vsyncIntr, Len(dataReady) < MaxBacklog,
             NEW s, s.bad = bad,
             s.queue = dataReady \/ s.queue = Append(dataReady, "buf"),
             NEW stopping \in BOOLEAN, stopping => ~ bad[fb],
             Stop(s, stopping),
             UNCHANGED <<fb, ref, len, pixels, filtered, exchange, task, cur, user>>
      PROVE  SingleInv'
  <2>1. consumer = "wait" /\ ~ frameReady /\ ~ BusOff
    BY <1>1 DEF SingleInv, Active, BusOff
  <2>2. EofLast(dataReady, FALSE) /\ task \notin {"finish", "done"}
    BY <2>1 DEF SingleInv, EofLast
  <2>3. bad' = bad /\ EofLast(dataReady', BusOff')
    BY <1>1, <2>2, EofLastStop
  <2> QED BY <1>1, <2>1, <2>2, <2>3 DEF SingleInv, exchange, user
<1>2. CASE I2sIsr
  <2> DEFINE s == Signal(dataReady, bad)
             last == ~ Jpeg /\ received + 1 = FrameBufs
  <2>1. /\ i2sIntr /\ Len(dataReady) < MaxBacklog /\ Stop(s, last)
        /\ UNCHANGED <<fb, ref, len, pixels, filtered, exchange, task, cur, user>>
    BY <1>2 DEF I2sIsr
  <2>2. s.bad = bad /\ (s.queue = dataReady \/ s.queue = Append(dataReady, "buf"))
    BY <2>1, SignalWithRoom
  <2>3. last \in BOOLEAN /\ (last => ~ bad[fb])
    BY DEF SingleInv
  <2> HIDE DEF s, last
  <2> QED BY <1>1, <2>1, <2>2, <2>3
<1>3. CASE VsyncIsr
  <2> DEFINE s == IF received > 0 THEN Signal(dataReady, bad)
                  ELSE [queue |-> dataReady, bad |-> bad]
             last == received > 0 /\ (filtered > 1 \/ ~ Single)
  <2>1. /\ vsyncIntr /\ Len(dataReady) < MaxBacklog /\ Stop(s, last)
        /\ UNCHANGED <<fb, ref, len, pixels, filtered, exchange, task, cur, user>>
    BY <1>3 DEF VsyncIsr
  <2>2. s.bad = bad /\ (s.queue = dataReady \/ s.queue = Append(dataReady, "buf"))
    BY <2>1, SignalWithRoom
  <2>3. last \in BOOLEAN /\ (last => ~ bad[fb])
    BY DEF SingleInv
  <2> HIDE DEF s, last
  <2> QED BY <1>1, <2>1, <2>2, <2>3
<1>4. CASE VsyncTail \/ VsyncRestart
  <2>1. UNCHANGED <<frames, i2sIntr, vsyncIntr, filtered, dataReady, exchange, task, cur, user>>
    BY <1>4 DEF VsyncTail, VsyncRestart
  <2> QED BY <2>1 DEF SingleInv, Active, BusOff, EofLast, frames, exchange, user
<1>5. CASE FilterReceive
  <2>1. consumer = "wait" /\ ~ frameReady
    BY <1>5 DEF FilterReceive, SingleInv, Active
  <2>2. EofLast(dataReady', BusOff') /\ (Head(dataReady) = "eof" => dataReady' = <<>> /\ BusOff')
    <3> dataReady \in Seq({"buf", "eof"}) /\ dataReady # <<>>
      BY <1>5 DEF FilterReceive, TypeOK
    <3>1. BusOff' = BusOff /\ dataReady' = Tail(dataReady)
      BY <1>5 DEF FilterReceive, bus, BusOff
    <3>2. /\ Tail(dataReady) \in Seq({"buf", "eof"})
          /\ Len(Tail(dataReady)) = Len(dataReady) - 1 /\ Len(dataReady) \in Nat \ {0}
          /\ \A k \in 1 .. Len(Tail(dataReady)) : Tail(dataReady)[k] = dataReady[k + 1]
          /\ Head(dataReady) = dataReady[1]
      BY HeadTailProperties, EmptySeq
    <3>3. ASSUME NEW k \in 1 .. Len(Tail(dataReady)), Tail(dataReady)[k] = "eof"
          PROVE  k = Len(Tail(dataReady)) /\ BusOff
      <4>1. k + 1 \in 1 .. Len(dataReady) /\ dataReady[k + 1] = "eof"
        BY <3>2, <3>3
      <4>2. k + 1 = Len(dataReady) /\ BusOff
        BY <4>1 DEF SingleInv, EofLast
      <4>3. k \in Int /\ \A n \in Nat : k + 1 = n => k = n - 1
        OBVIOUS
      <4>4. k = Len(dataReady) - 1
        BY <3>2, <4>2, <4>3
      <4> QED BY <3>2, <4>2, <4>4
    <3>4. ASSUME Head(dataReady) = "eof" PROVE Tail(dataReady) = <<>> /\ BusOff
      <4>1. 1 \in 1 .. Len(dataReady) /\ dataReady[1] = "eof"
        BY <3>2, <3>4
      <4>2. Len(dataReady) = 1 /\ BusOff
        BY <4>1 DEF SingleInv, EofLast
      <4> QED BY <3>2, <4>2, EmptySeq
    <3> QED BY <3>1, <3>3, <3>4 DEF EofLast
  <2> QED BY <1>5, <2>1, <2>2 DEF FilterReceive, SingleInv, frames, exchange, user
<1>6. CASE FilterBuffer
  <2>1. consumer = "wait" /\ ~ frameReady
    BY <1>6 DEF FilterBuffer, TaskAt, SingleInv, Active
  <2>2. bad[fb]' => Jpeg /\ filtered' = 0
    <3>1. CASE UNCHANGED <<bad, filtered>>
      BY <1>6, <3>1 DEF FilterBuffer, SingleInv
    <3>2. ASSUME NEW good \in BOOLEAN,
                 good \/ (Jpeg /\ BadHeaders /\ filtered = 0),
                 bad' = [bad EXCEPT ![fb] = ~ good],
                 filtered' = IF good THEN filtered + 1 ELSE filtered
          PROVE  bad[fb]' => Jpeg /\ filtered' = 0
      <4>1. fb' = fb /\ bad'[fb] = ~ good
        BY <1>6, <3>2 DEF FilterBuffer, TypeOK
      <4> QED BY <3>2, <4>1
    <3> QED BY <1>6, <3>1, <3>2 DEF FilterBuffer
  <2>3. UNCHANGED <<fb, ref, fbOut, fbIn, frameReady, consumer, held, i2sIntr, vsyncIntr, dataReady>>
    BY <1>6 DEF FilterBuffer, bus, exchange, user
  <2>4. task' = "receive"
    BY <1>6 DEF FilterBuffer
  <2> QED BY <2>1, <2>2, <2>3, <2>4 DEF SingleInv, EofLast, BusOff
<1>7. CASE FinishBad \/ FinishGood
  <2>1. consumer = "wait" /\ ~ frameReady /\ dataReady = <<>> /\ BusOff
    BY <1>7 DEF FinishBad, FinishGood, TaskAt, SingleInv, Active
  <2>2. /\ UNCHANGED <<fb, ref, fbOut, fbIn, frameReady, consumer, held, dataReady, filtered>>
        /\ task' \in {"reset", "done"}
        /\ task' = "done" => BusOff'
        /\ bad'[fb] = FALSE
    BY <1>7, <2>1 DEF FinishBad, FinishGood, TypeOK, exchange, user, bus, BusOff
  <2>3. EofLast(dataReady', BusOff')
    BY <2>1, <2>2 DEF EofLast
  <2> QED BY <2>1, <2>2, <2>3 DEF SingleInv, Active
<1>8. CASE FinishReferenced
  BY <1>8 DEF FinishReferenced, SingleInv
<1>9. CASE FinishReset
  <2>1. /\ UNCHANGED frames /\ UNCHANGED bus /\ UNCHANGED exchange /\ UNCHANGED user
        /\ UNCHANGED <<dataReady, cur>> /\ filtered' = 0 /\ task' = "receive"
    BY <1>9 DEF FinishReset
  <2> QED BY <2>1 DEF SingleInv, Active, BusOff, EofLast, frames, bus, exchange, user
<1>10. CASE FbDoneSingle
  <2>1. consumer = "wait" /\ dataReady = <<>> /\ BusOff
    BY <1>10 DEF FbDoneSingle, TaskAt, SingleInv, Active
  <2>2. /\ UNCHANGED frames /\ UNCHANGED bus /\ UNCHANGED user
        /\ UNCHANGED <<filtered, dataReady, fbOut, fbIn>>
        /\ task' = "reset" /\ frameReady' = TRUE
    BY <1>10 DEF FbDoneSingle
  <2> QED BY <2>1, <2>2 DEF SingleInv, Active, BusOff, EofLast, frames, bus, user
<1>11. CASE FbDone \/ FbReplace \/ FbReplaceFails \/ FbDrain
  BY <1>11 DEF FbDone, FbReplace, FbReplaceFails, FbDrain, TaskAt, SingleInv
<1>12. CASE FbGet
  <2>1. held = {} /\ ~ Active /\ ~ frameReady
    <3>1. consumer = "idle" /\ held # Fbs
      BY <1>12 DEF FbGet
    <3>2. Fbs = {0} /\ held \subseteq Fbs
      BY DEF TypeOK, Single, Fbs
    <3>3. held = {}
      BY <3>1, <3>2
    <3> QED BY <3>1, <3>3 DEF SingleInv
  <2>2. /\ UNCHANGED frames /\ UNCHANGED bus /\ UNCHANGED exchange
        /\ UNCHANGED <<filtered, dataReady, task, held>>
    BY <1>12 DEF FbGet
  <2> QED BY <2>1, <2>2 DEF SingleInv, Active, BusOff, EofLast, frames, bus, exchange
<1>13. CASE RunFindFree
  <2>1. ~ Active /\ ~ frameReady /\ held = {}
    BY <1>13 DEF RunFindFree, SingleInv
  <2>2. /\ UNCHANGED <<ref, bad, len, pixels, filtered, dataReady, task, held>>
        /\ UNCHANGED bus /\ UNCHANGED exchange /\ fb' = fb
    BY <1>13 DEF RunFindFree
  <2> QED BY <2>1, <2>2 DEF SingleInv, Active, BusOff, EofLast, bus, exchange
<1>14. CASE RunStart
  <2>1. dataReady = <<>> /\ task \notin {"filter", "finish", "done"} /\ ~ frameReady /\ held = {}
    BY <1>14 DEF RunStart, SingleInv, Active
  <2>2. /\ UNCHANGED frames /\ UNCHANGED exchange
        /\ UNCHANGED <<filtered, dataReady, task, held>> /\ consumer' = "wait"
    BY <1>14 DEF RunStart
  <2>3. EofLast(dataReady', BusOff')
    BY <2>1, <2>2 DEF EofLast
  <2> QED BY <2>1, <2>2, <2>3 DEF SingleInv, frames, exchange
<1>15. CASE TakeFrameReady
  <2>1. ~ Active
    BY <1>15 DEF TakeFrameReady, SingleInv
  <2>2. /\ UNCHANGED frames /\ UNCHANGED bus
        /\ UNCHANGED <<filtered, dataReady, fbOut, fbIn, task>>
        /\ frameReady' = FALSE /\ consumer' = "idle"
    BY <1>15 DEF TakeFrameReady
  <2> QED BY <2>1, <2>2 DEF SingleInv, Active, BusOff, EofLast, frames, bus
<1>16. CASE TakeFbOut
  BY <1>16 DEF TakeFbOut
<1>17. CASE FbReturn
  <2>1. /\ UNCHANGED frames /\ UNCHANGED bus
        /\ UNCHANGED <<filtered, dataReady, fbOut, fbIn, frameReady, task, consumer>>
        /\ consumer = "idle"
    BY <1>17 DEF FbReturn
  <2> QED BY <2>1 DEF SingleInv, Active, BusOff, EofLast, frames, bus
<1>18. CASE UNCHANGED vars
  <2>1. /\ UNCHANGED frames /\ UNCHANGED bus /\ UNCHANGED exchange /\ UNCHANGED user
        /\ UNCHANGED <<filtered, dataReady, task>>
    BY <1>18 DEF vars
  <2> QED BY <2>1 DEF SingleInv, Active, BusOff, EofLast, frames, bus, exchange, user
<1> QED
  BY <1>2, <1>3, <1>4, <1>5, <1>6, <1>7, <1>8, <1>9, <1>10, <1>11, <1>12, <1>13,
     <1>14, <1>15, <1>16, <1>17, <1>18
  DEF Next, Interrupts, Filter, Consumer
-----------------------------------------------------------------------------
(* The theorems.                                                           *)

LEMMA InitIInv == Init => IInv
<1> SUFFICES ASSUME Init PROVE RingInv /\ SingleInv
  BY InitType DEF IInv
<1> USE DEF Init
<1>1. ToSet(fbOut) = {} /\ ToSet(fbIn) = {} /\ Len(fbIn) = 0 /\ held = {}
  BY DEF ToSet
<1>2. RingInv
  BY <1>1 DEF RingInv, Circulation
<1>3. SingleInv
  BY ParamAssumption DEF SingleInv, Active, EofLast, Fbs
<1> QED BY <1>2, <1>3

\* Every step keeps the inductive invariant.
LEMMA IInvStep ==
  ASSUME Single => KeepsUp
  PROVE  IInv /\ [Next]_vars => IInv'
<1> SUFFICES ASSUME IInv, [Next]_vars PROVE IInv'
  OBVIOUS
<1>1. TypeOK'
  BY TypeStep DEF IInv
<1>2. CASE Single
  <2>1. SingleInv'
    BY <1>2, SingleStep DEF IInv
  <2>2. RingInv'
    <3>1. Single' /\ fbOut' = <<>> /\ fbIn' = <<>> /\ task' # "replace"
      BY <1>2, <2>1 DEF SingleInv, Single
    <3>2. ToSet(fbOut') = {} /\ ToSet(fbIn') = {} /\ Len(fbIn') = 0
      BY <3>1 DEF ToSet
    <3> QED BY <3>1, <3>2 DEF RingInv, Circulation
  <2> QED BY <1>1, <2>1, <2>2 DEF IInv
<1>3. CASE ~ Single
  <2>1. RingInv'
    BY <1>3, RingStep DEF IInv
  <2> QED BY <1>1, <1>3, <2>1 DEF IInv, SingleInv, Single
<1> QED BY <1>2, <1>3

\* In a ring the flag ref keeps the driver off a buffer in circulation; with
\* one buffer the whole pipeline is switched off while the consumer holds it.
LEMMA IInvSafe ==
  ASSUME IInv
  PROVE  NoWriteToHeld
<1> SUFFICES ASSUME NEW i \in held, Writes(i) PROVE FALSE
  BY DEF NoWriteToHeld
<1>1. CASE Single
  <2>1. task \in {"filter", "finish"}
    BY DEF Writes
  <2>2. consumer = "wait"
    BY <1>1, <2>1 DEF IInv, SingleInv, Active
  <2> QED BY <1>1, <2>2 DEF IInv, SingleInv
<1>2. CASE ~ Single
  BY <1>2 DEF IInv, RingInv, Circulation, Writes
<1> QED BY <1>1, <1>2

\* The driver never writes a frame buffer the consumer holds, whatever the
\* interrupts do: always with several buffers (the ref flag of camera_fb_done
\* and dma_filter_buffer), and with one as long as data_ready never fills, so
\* that i2s_stop's end mark is not lost.
THEOREM HeldFramesIntact ==
  ASSUME Single => KeepsUp
  PROVE  Spec => []NoWriteToHeld
<1>1. Init => IInv
  BY InitIInv
<1>2. IInv /\ [Next]_vars => IInv'
  BY IInvStep
<1>3. IInv => NoWriteToHeld
  BY IInvSafe
<1> QED BY <1>1, <1>2, <1>3, PTL DEF Spec

\* Frame buffers circulate in one place at a time, and with several each that
\* is out is referenced and not empty (camera_fb_done, esp_camera_fb_return).
THEOREM BuffersCirculate ==
  ASSUME Single => KeepsUp
  PROVE  Spec => []Circulation
<1>1. Init => IInv
  BY InitIInv
<1>2. IInv /\ [Next]_vars => IInv'
  BY IInvStep
<1>3. IInv => Circulation
  BY DEF IInv, RingInv
<1> QED BY <1>1, <1>2, <1>3, PTL DEF Spec

\* The places of fb_in are as many as the buffers, and one buffer is out.
LEMMA RoomToReturn ==
  ASSUME TypeOK, Circulation
  PROVE  ReturnNeverBlocks
<1> SUFFICES ASSUME NEW x \in held PROVE Len(fbIn) < FbCount
  BY DEF ReturnNeverBlocks
<1> DEFINE n == Len(fbIn)
<1>1. /\ n \in Nat /\ DOMAIN fbIn = 1 .. n /\ fbIn \in [1 .. n -> Fbs]
      /\ FbCount \in Nat \ {0} /\ x \in Fbs
  BY LenProperties, ParamAssumption DEF TypeOK
<1>2. \A k \in 1 .. n : fbIn[k] \in Fbs \ {x}
  BY <1>1 DEF Circulation, ToSet
<1>3. fbIn \in Injection(1 .. n, Fbs \ {x})
  <2>1. fbIn \in [1 .. n -> Fbs \ {x}]
    BY <1>1, <1>2
  <2>2. \A a, b \in 1 .. n : fbIn[a] = fbIn[b] => a = b
    BY DEF Circulation
  <2> QED BY <2>1, <2>2 DEF Injection, IsInjective
<1>4. IsFiniteSet(Fbs) /\ Cardinality(Fbs) = FbCount
  <2>1. /\ FbCount - 1 \in Int /\ 0 \in Int /\ ~ (0 > FbCount - 1)
        /\ (FbCount - 1) - 0 + 1 = FbCount
    BY <1>1
  <2>2. /\ IsFiniteSet(0 .. FbCount - 1)
        /\ Cardinality(0 .. FbCount - 1) = (FbCount - 1) - 0 + 1
    BY <2>1, FS_Interval
  <2> QED BY <2>1, <2>2 DEF Fbs
<1>5. IsFiniteSet(Fbs \ {x}) /\ Cardinality(Fbs \ {x}) = FbCount - 1
  BY <1>1, <1>4, FS_RemoveElement
<1>6. Cardinality(1 .. n) <= FbCount - 1
  BY <1>3, <1>5, FS_Injection
<1>7. Cardinality(1 .. n) = n
  <2>1. 1 \in Int /\ n \in Int /\ (IF 1 > n THEN 0 ELSE n - 1 + 1) = n
    BY <1>1
  <2> HIDE DEF n
  <2>2. Cardinality(1 .. n) = IF 1 > n THEN 0 ELSE n - 1 + 1
    BY <2>1, FS_Interval
  <2> QED BY <2>1, <2>2
<1> QED BY <1>1, <1>6, <1>7

\* esp_camera_fb_return never waits, although it would do so forever: fb_in
\* has room for the frame that is given back.
THEOREM ReturnsAtOnce ==
  ASSUME Single => KeepsUp
  PROVE  Spec => []ReturnNeverBlocks
<1>1. Init => IInv
  BY InitIInv
<1>2. IInv /\ [Next]_vars => IInv'
  BY IInvStep
<1>3. IInv => ReturnNeverBlocks
  BY RoomToReturn DEF IInv, RingInv
<1> QED BY <1>1, <1>2, <1>3, PTL DEF Spec

-----------------------------------------------------------------------------
(* The frame pool.                                                         *)

\* A step that moves no buffer and changes no contents is a stutter.
LEMMA PoolStutter ==
  ASSUME UNCHANGED <<held, fbOut, fbIn, frameReady, len, pixels>>
  PROVE  UNCHANGED <<[i \in Fbs |-> Owner(i)],
                     [i \in Fbs |-> <<len[i], pixels[i]>>]>>
BY DEF Owner, Single

\* The driver offers one frame at a time.
LEMMA OneOffered ==
  TypeOK => \A i, j \in Fbs :
              Owner(i) = "offered" /\ Owner(j) = "offered" => i = j
<1> SUFFICES ASSUME TypeOK, NEW i \in Fbs, NEW j \in Fbs,
                    Owner(i) = "offered", Owner(j) = "offered"
             PROVE  i = j
  OBVIOUS
<1>1. CASE Single
  BY <1>1, OneBuffer
<1>2. CASE ~ Single
  <2>1. i \in ToSet(fbOut) /\ j \in ToSet(fbOut)
    BY <1>2 DEF Owner
  <2>2. fbOut # <<>> /\ fbOut \in Seq(Fbs) /\ Len(fbOut) <= 1
    BY <2>1 DEF TypeOK, ToSet
  <2>3. ToSet(fbOut) = {Head(fbOut)}
    <3>1. \A q \in Seq(Fbs) : Len(q) <= 1 /\ q # <<>> => ToSet(q) = {Head(q)}
      BY QueueElements, Zenon
    <3> QED BY <2>2, <3>1
  <2> QED BY <2>1, <2>3
<1> QED BY <1>1, <1>2

LEMMA OneOfferedNext ==
  TypeOK' => (\A i, j \in Fbs :
                Owner(i) = "offered" /\ Owner(j) = "offered" => i = j)'
BY OneOffered, PTL

\* A step of the driver: it moves buffers as it may and leaves alone the
\* contents of those that are not its own.
LEMMA PoolDrive ==
  ASSUME TypeOK, TypeOK',
         \A i \in Fbs : \/ Owner(i)' = Owner(i)
                        \/ <<Owner(i), Owner(i)'>> \in Pool!DriverMoves,
         \A i \in Fbs : Owner(i)' # "driver" =>
                          len'[i] = len[i] /\ pixels'[i] = pixels[i]
  PROVE  Pool!Drive
<1>1. [i \in Fbs |-> Owner(i)'] \in [Fbs -> Pool!Owners]
  BY DEF Owner, Pool!Owners
<1>2. [i \in Fbs |-> <<len'[i], pixels'[i]>>]
        \in [Fbs -> (0 .. FbBufs) \X (0 .. FbBufs)]
  BY DEF TypeOK
<1>3. \A i, j \in Fbs : Owner(i)' = "offered" /\ Owner(j)' = "offered" => i = j
  BY OneOfferedNext
<1> QED BY <1>1, <1>2, <1>3 DEF Pool!Drive

\* One buffer: the driver's, on offer, or with the consumer.
LEMMA PoolSingle ==
  ASSUME IInv, IInv', Single, [Next]_vars
  PROVE  [Pool!Next]_<<[i \in Fbs |-> Owner(i)],
                       [i \in Fbs |-> <<len[i], pixels[i]>>]>>
<1> Fbs = {0} /\ fb = 0 /\ Single'
  BY OneBuffer DEF IInv, TypeOK, Single
<1>1. /\ fbOut = <<>> /\ fbIn = <<>> /\ fbOut' = <<>> /\ fbIn' = <<>>
      /\ task \notin {"replace", "drain"} /\ TypeOK /\ TypeOK'
  BY DEF IInv, SingleInv
<1>2. /\ Owner(0) = IF 0 \in held THEN "consumer"
                    ELSE IF frameReady THEN "offered" ELSE "driver"
      /\ Owner(0)' = IF 0 \in held' THEN "consumer"
                     ELSE IF frameReady' THEN "offered" ELSE "driver"
  BY <1>1 DEF Owner, ToSet
<1>3. CASE UNCHANGED <<held, frameReady, len, pixels>>
  BY <1>1, <1>3, PoolStutter
<1>4. CASE FilterBuffer \/ FinishBad \/ FinishGood
  <2>1. ~ frameReady /\ held = {}
    BY <1>4
    DEF FilterBuffer, FinishBad, FinishGood, TaskAt, IInv, SingleInv, Active
  <2>2. UNCHANGED <<held, frameReady>>
    BY <1>4 DEF FilterBuffer, FinishBad, FinishGood, exchange, user
  <2>3. Owner(0)' = Owner(0) /\ Owner(0)' = "driver"
    BY <1>2, <2>1, <2>2
  <2> QED BY <1>1, <2>3, PoolDrive DEF Pool!Next
<1>5. CASE FbDoneSingle
  <2>1. ~ frameReady /\ held = {}
    BY <1>5 DEF FbDoneSingle, TaskAt, IInv, SingleInv, Active
  <2>2. frameReady' /\ UNCHANGED <<held, len, pixels>>
    BY <1>5 DEF FbDoneSingle, frames, user
  <2>3. <<Owner(0), Owner(0)'>> \in Pool!DriverMoves
    BY <1>2, <2>1, <2>2 DEF Pool!DriverMoves
  <2> QED BY <1>1, <2>2, <2>3, PoolDrive DEF Pool!Next
<1>6. CASE TakeFrameReady
  <2>1. /\ frameReady /\ held = {} /\ ~ frameReady' /\ held' = {0}
        /\ UNCHANGED <<len, pixels>>
    BY <1>6 DEF TakeFrameReady, IInv, SingleInv, frames
  <2>2. Owner(0) = "offered" /\ Owner(0)' = "consumer"
    BY <1>2, <2>1
  <2> QED BY <2>1, <2>2 DEF Pool!Next, Pool!Take
<1>7. CASE FbReturn
  <2>1. /\ held = {0} /\ held' = {} /\ ~ frameReady
        /\ UNCHANGED <<frameReady, len, pixels>>
    BY <1>7 DEF FbReturn, IInv, SingleInv, TypeOK, frames
  <2>2. Owner(0) = "consumer" /\ Owner(0)' = "driver"
    BY <1>2, <2>1
  <2>3. [i \in Fbs |-> Owner(i)'] = [[i \in Fbs |-> Owner(i)] EXCEPT ![0] = "driver"]
    BY <2>2
  <2> QED BY <2>1, <2>2, <2>3 DEF Pool!Next, Pool!GiveBack
<1>8. CASE Interrupts
  BY <1>3, <1>8
  DEF Interrupts, I2sIsr, VsyncIsr, VsyncTail, VsyncRestart, frames, exchange,
      user
<1>9. CASE FilterReceive \/ FinishReferenced \/ FinishReset
  BY <1>3, <1>9
  DEF FilterReceive, FinishReferenced, FinishReset, frames, exchange, user
<1>10. CASE FbGet \/ RunFindFree \/ RunStart
  BY <1>3, <1>10 DEF FbGet, RunFindFree, RunStart, frames, exchange
<1>11. CASE UNCHANGED vars
  BY <1>3, <1>11 DEF vars, frames, exchange, user
<1>12. ~ (FbDone \/ FbReplace \/ FbReplaceFails \/ FbDrain \/ TakeFbOut)
  BY <1>1 DEF FbDone, FbReplace, FbReplaceFails, FbDrain, TakeFbOut, TaskAt
<1> QED
  BY <1>4, <1>5, <1>6, <1>7, <1>8, <1>9, <1>10, <1>11, <1>12
  DEF Next, Filter, Consumer

\* Several buffers: the one on offer is in fb_out, the returned ones in fb_in,
\* and ref keeps the driver off both and off those the consumer holds.
LEMMA PoolRing ==
  ASSUME IInv, IInv', ~ Single, [Next]_vars
  PROVE  [Pool!Next]_<<[i \in Fbs |-> Owner(i)],
                       [i \in Fbs |-> <<len[i], pixels[i]>>]>>
<1>1. TypeOK /\ TypeOK' /\ ~ Single' /\ RingInv /\ Circulation
  BY DEF IInv, RingInv, Single
<1>2. /\ fbOut \in Seq(Fbs) /\ Len(fbOut) <= 1 /\ fb \in Fbs /\ cur \in Fbs
      /\ held \subseteq Fbs /\ fbIn \in Seq(Fbs)
      /\ len \in [Fbs -> 0 .. FbBufs] /\ pixels \in [Fbs -> 0 .. FbBufs]
      /\ ref \in [Fbs -> BOOLEAN]
  BY <1>1 DEF TypeOK
<1>3. \A x \in Fbs : ToSet(<<x>>) = {x}
  BY <1>2, QueueElements
<1>4. ToSet(<<>>) = {}
  BY DEF ToSet
<1>5. fbOut # <<>> =>
        /\ Head(fbOut) \in Fbs /\ Tail(fbOut) = <<>>
        /\ ToSet(fbOut) = {Head(fbOut)}
  <2>1. \A q \in Seq(Fbs) : Len(q) <= 1 /\ q # <<>> =>
          ToSet(q) = {Head(q)} /\ Tail(q) = <<>> /\ Head(q) \in Fbs
    BY <1>2, QueueElements, Zenon
  <2> QED BY <1>2, <2>1
<1>6. \A i \in Fbs :
        Owner(i) = IF i \in held THEN "consumer"
                   ELSE IF i \in ToSet(fbOut) THEN "offered"
                   ELSE IF i \in ToSet(fbIn) THEN "returned" ELSE "driver"
  BY <1>1 DEF Owner
<1>7. \A i \in Fbs :
        Owner(i)' = IF i \in held' THEN "consumer"
                    ELSE IF i \in ToSet(fbOut') THEN "offered"
                    ELSE IF i \in ToSet(fbIn') THEN "returned" ELSE "driver"
  BY <1>1 DEF Owner
<1>8. \A i \in Fbs : ~ ref[i] => ~ InCirculation(i)
  BY <1>1 DEF Circulation, InCirculation
<1>9. CASE UNCHANGED <<held, fbOut, fbIn, frameReady, len, pixels>>
  BY <1>9, PoolStutter
<1>10. CASE FilterBuffer \/ FinishBad \/ FinishGood
  <2>1. CASE UNCHANGED pixels /\ UNCHANGED len
    BY <1>9, <1>10, <2>1
    DEF FilterBuffer, FinishBad, FinishGood, exchange, user
  <2>2. CASE ~ ref[fb]
    <3>1. UNCHANGED <<held, fbOut, fbIn>>
      BY <1>10 DEF FilterBuffer, FinishBad, FinishGood, exchange, user
    <3>2. \A i \in Fbs : Owner(i)' = Owner(i)
      BY <1>6, <1>7, <3>1
    <3>3. Owner(fb) = "driver"
      BY <1>2, <1>6, <1>8, <2>2 DEF InCirculation
    <3>4. \A i \in Fbs : i # fb => len'[i] = len[i] /\ pixels'[i] = pixels[i]
      BY <1>2, <1>10 DEF FilterBuffer, FinishBad, FinishGood
    <3>5. \A i \in Fbs : Owner(i)' # "driver" =>
            len'[i] = len[i] /\ pixels'[i] = pixels[i]
      BY <3>2, <3>3, <3>4
    <3> QED BY <1>1, <3>2, <3>5, PoolDrive DEF Pool!Next
  <2> QED BY <1>10, <2>1, <2>2 DEF FilterBuffer, FinishBad, FinishGood
<1>11. CASE FbDone
  <2>1. CASE UNCHANGED fbOut
    BY <1>9, <1>11, <2>1 DEF FbDone, user
  <2>2. CASE ~ ref[fb] /\ fbOut = <<>> /\ fbOut' = <<fb>>
    <3>1. UNCHANGED <<held, fbIn, len, pixels>>
      BY <1>11 DEF FbDone, user
    <3> PICK f \in Fbs : f = fb
      BY <1>2
    <3>2. \A i \in Fbs : i # f => Owner(i)' = Owner(i)
      BY <1>2, <1>3, <1>4, <1>6, <1>7, <2>2, <3>1
    <3>3. Owner(f) = "driver" /\ Owner(f)' = "offered"
      BY <1>2, <1>3, <1>6, <1>7, <1>8, <2>2, <3>1 DEF InCirculation
    <3>4. \A i \in Fbs : \/ Owner(i)' = Owner(i)
                         \/ <<Owner(i), Owner(i)'>> \in Pool!DriverMoves
      BY <3>2, <3>3 DEF Pool!DriverMoves
    <3> QED BY <1>1, <3>1, <3>4, PoolDrive DEF Pool!Next
  <2> QED BY <1>11, <2>1, <2>2 DEF FbDone
<1>12. CASE FbReplace
  <2> PICK h \in Fbs : h = Head(fbOut)
    BY <1>5, <1>12 DEF FbReplace
  <2> PICK c \in Fbs : c = cur
    BY <1>2
  <2>1. /\ task = "replace" /\ fbOut # <<>> /\ fbOut' = <<c>>
        /\ len' = [len EXCEPT ![h] = 0]
        /\ UNCHANGED <<held, fbIn, pixels>>
    BY <1>12 DEF FbReplace, TaskAt, user
  <2>2. ToSet(fbOut) = {h} /\ ToSet(fbOut') = {c}
    BY <1>3, <1>5, <2>1
  <2>3. h \notin held /\ h \notin ToSet(fbIn)
    BY <1>1, <2>2 DEF Circulation
  <2>4. c \notin held /\ c \notin ToSet(fbIn) /\ c # h
    BY <1>1, <2>1, <2>2 DEF RingInv, InCirculation
  <2>5. Owner(h) = "offered" /\ Owner(h)' = "driver"
    BY <1>6, <1>7, <2>1, <2>2, <2>3, <2>4
  <2>6. Owner(c) = "driver" /\ Owner(c)' = "offered"
    BY <1>2, <1>6, <1>7, <2>1, <2>2, <2>4
  <2>7. \A i \in Fbs : i # h /\ i # c => Owner(i)' = Owner(i)
    BY <1>6, <1>7, <2>1, <2>2
  <2>8. \A i \in Fbs : \/ Owner(i)' = Owner(i)
                       \/ <<Owner(i), Owner(i)'>> \in Pool!DriverMoves
    BY <2>5, <2>6, <2>7 DEF Pool!DriverMoves
  <2>9. \A i \in Fbs : Owner(i)' # "driver" =>
          len'[i] = len[i] /\ pixels'[i] = pixels[i]
    BY <1>2, <2>1, <2>5
  <2> QED BY <1>1, <2>8, <2>9, PoolDrive DEF Pool!Next
<1>13. CASE FbDrain
  <2> DEFINE back == ToSet(fbIn)
             r == [i \in Fbs |-> ref[i] /\ i \notin back]
             l == [i \in Fbs |-> IF i \in back THEN 0 ELSE len[i]]
  <2>1. PICK j \in Fbs :
          /\ len' = IF r[j] THEN l ELSE [l EXCEPT ![j] = 0]
          /\ pixels' = IF r[j] THEN pixels ELSE [pixels EXCEPT ![j] = 0]
    BY <1>13 DEF FbDrain
  <2>2. fbIn' = <<>> /\ UNCHANGED <<held, fbOut>>
    BY <1>13 DEF FbDrain, user
  <2>3. \A i \in Fbs : \/ Owner(i)' = Owner(i)
                       \/ <<Owner(i), Owner(i)'>> \in Pool!DriverMoves
    BY <1>4, <1>6, <1>7, <2>2 DEF Pool!DriverMoves
  <2>4. \A i \in Fbs : Owner(i)' # "driver" => i \in held \cup ToSet(fbOut)
    BY <1>4, <1>7, <2>2
  <2>5. \A i \in held \cup ToSet(fbOut) : i \notin back /\ ref[i]
    BY <1>1 DEF Circulation
  <2>6. ASSUME NEW i \in Fbs, Owner(i)' # "driver"
        PROVE  len'[i] = len[i] /\ pixels'[i] = pixels[i]
    <3>1. i \notin back /\ ref[i]
      BY <2>4, <2>5, <2>6
    <3>2. r[i] /\ l[i] = len[i] /\ l \in [Fbs -> 0 .. FbBufs]
      <4>1. r[i]
        BY <3>1
      <4>2. l[i] = len[i]
        BY <3>1
      <4>3. \A k \in Fbs : (IF k \in back THEN 0 ELSE len[k]) \in 0 .. FbBufs
        BY <1>2, ParamAssumption
      <4>4. l \in [Fbs -> 0 .. FbBufs]
        BY <4>3
      <4> QED BY <4>1, <4>2, <4>4
    <3> HIDE DEF r, l
    <3>3. CASE r[j]
      BY <2>1, <3>2, <3>3
    <3>4. CASE ~ r[j]
      <4>1. i # j
        BY <3>2, <3>4
      <4> QED BY <1>2, <2>1, <3>2, <3>4, <4>1
    <3> QED BY <3>3, <3>4
  <2> QED BY <1>1, <2>3, <2>6, PoolDrive DEF Pool!Next
<1>14. CASE TakeFbOut
  <2> DEFINE h == Head(fbOut)
  <2>1. /\ fbOut # <<>> /\ fbOut' = Tail(fbOut) /\ held' = held \cup {h}
        /\ UNCHANGED <<fbIn, len, pixels>>
    BY <1>14 DEF TakeFbOut, frames
  <2>2. h \in Fbs /\ ToSet(fbOut) = {h} /\ ToSet(fbOut') = {}
    BY <1>4, <1>5, <2>1
  <2> HIDE DEF h
  <2>3. Owner(h) = "offered"
    BY <1>1, <1>6, <2>2 DEF Circulation
  <2>4. \A i \in Fbs : Owner(i)' = IF i = h THEN "consumer" ELSE Owner(i)
    BY <1>6, <1>7, <2>1, <2>2
  <2>5. [i \in Fbs |-> Owner(i)']
          = [[i \in Fbs |-> Owner(i)] EXCEPT ![h] = "consumer"]
    BY <2>4
  <2>6. Pool!Take(h)
    BY <2>1, <2>2, <2>3, <2>5 DEF Pool!Take
  <2> QED BY <2>2, <2>6 DEF Pool!Next
<1>15. CASE FbReturn
  <2>1. PICK h \in held : /\ held' = held \ {h} /\ fbIn' = Append(fbIn, h)
                          /\ UNCHANGED <<fbOut, len, pixels>>
    BY <1>15 DEF FbReturn, frames
  <2>2. h \in Fbs
    BY <1>2
  <2>3. ToSet(fbIn') = ToSet(fbIn) \cup {h}
    <3>1. \A q \in Seq(Fbs), x \in Fbs : ToSet(Append(q, x)) = ToSet(q) \cup {x}
      BY AppendElements, Zenon
    <3> QED BY <1>2, <2>1, <2>2, <3>1
  <2>4. h \notin ToSet(fbOut)
    BY <1>1 DEF Circulation
  <2>5. Owner(h) = "consumer"
    BY <1>6, <2>2
  <2>6. \A i \in Fbs : Owner(i)' = IF i = h THEN "returned" ELSE Owner(i)
    BY <1>6, <1>7, <2>1, <2>3, <2>4
  <2>7. [i \in Fbs |-> Owner(i)']
          = [[i \in Fbs |-> Owner(i)] EXCEPT ![h] = "returned"]
    BY <2>6
  <2>8. Pool!GiveBack(h)
    BY <2>1, <2>2, <2>5, <2>7 DEF Pool!GiveBack
  <2> QED BY <2>2, <2>8 DEF Pool!Next
<1>16. CASE Interrupts
  BY <1>9, <1>16
  DEF Interrupts, I2sIsr, VsyncIsr, VsyncTail, VsyncRestart, frames, exchange,
      user
<1>17. CASE FilterReceive \/ FinishReferenced \/ FinishReset \/ FbReplaceFails
  BY <1>9, <1>17
  DEF FilterReceive, FinishReferenced, FinishReset, FbReplaceFails, frames,
      exchange, user
<1>18. CASE FbGet \/ RunFindFree \/ RunStart
  BY <1>9, <1>18 DEF FbGet, RunFindFree, RunStart, frames, exchange
<1>19. CASE UNCHANGED vars
  BY <1>9, <1>19 DEF vars, frames, exchange, user
<1>20. ~ (FbDoneSingle \/ TakeFrameReady)
  BY DEF FbDoneSingle, TakeFrameReady
<1> QED
  BY <1>10, <1>11, <1>12, <1>13, <1>14, <1>15, <1>16, <1>17, <1>18, <1>19,
     <1>20
  DEF Next, Filter, Consumer

LEMMA PoolInit == Init => Pool!Init
<1> SUFFICES ASSUME Init PROVE Pool!Init
  OBVIOUS
<1>1. \A i \in Fbs : Owner(i) = "driver"
  BY DEF Init, Owner, ToSet
<1>2. \A i \in Fbs : <<len[i], pixels[i]>> \in (0 .. FbBufs) \X (0 .. FbBufs)
  BY ParamAssumption DEF Init
<1> QED BY <1>1, <1>2 DEF Pool!Init

LEMMA PoolStep ==
  IInv /\ IInv' /\ [Next]_vars
    => [Pool!Next]_<<[i \in Fbs |-> Owner(i)],
                     [i \in Fbs |-> <<len[i], pixels[i]>>]>>
BY PoolSingle, PoolRing

\* The pipeline implements the frame pool: a buffer is the driver's, on offer,
\* with the consumer or on its way back; it passes from one to the next only
\* by offer, take and return; and nobody changes the contents of a buffer that
\* is not the driver's (camera_fb_done, esp_camera_fb_get and
\* esp_camera_fb_return).
THEOREM PipelineIsPool ==
  ASSUME Single => KeepsUp
  PROVE  Spec => PoolSpec
<1>1. Init => IInv
  BY InitIInv
<1>2. IInv /\ [Next]_vars => IInv'
  BY IInvStep
<1> QED BY <1>1, <1>2, PoolInit, PoolStep, PTL DEF Spec, PoolSpec, Pool!Spec
========
