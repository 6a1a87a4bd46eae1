-------------------------- MODULE EdgeServer_proofs -------------------------
(***************************************************************************)
(* Proofs about the edge server, for any cameras, classes, rejections,     *)
(* outages and limits.  First the reporting loop alone: what is thrown     *)
(* away was sent, and no finding is lost; its lemmas speak of what a step  *)
(* does to the loop and to the telemetry in the outbox, so that the whole  *)
(* server, which publishes more than telemetry, can use them too.  Then    *)
(* the whole server: its loop keeps what it promises while cameras come    *)
(* and go and the server stops, the farewells of stop are in order, and    *)
(* what the cloud shows settles.                                           *)
(***************************************************************************)
EXTENDS EdgeServer, FiniteSetTheorems, SequenceTheorems, TLAPS

-----------------------------------------------------------------------------
(* The reporting loop alone.                                               *)

\* The merge of queueData returns counts, and has the keys of both.
LEMMA MergeCountsKeys ==
  ASSUME NEW old \in Counts, NEW new \in Counts
  PROVE  /\ MergeCounts(old, new) \in Counts
         /\ Keys(MergeCounts(old, new)) = Keys(old) \cup Keys(new)
<1>1. ASSUME NEW c \in Classes
      PROVE  /\ MergeCounts(old, new)[c] \in 0 .. MaxCount
             /\ MergeCounts(old, new)[c] > 0 <=> old[c] > 0 \/ new[c] > 0
  BY FindingsAssumption DEF MergeCounts, Counts
<1>2. MergeCounts(old, new) \in Counts
  BY <1>1 DEF MergeCounts, Counts
<1> QED BY <1>1, <1>2 DEF Keys

\* A count of nothing has no keys.
LEMMA NoCountsKeys == NoCounts \in Counts /\ Keys(NoCounts) = {}
BY FindingsAssumption DEF NoCounts, Counts, Keys

Reports == {k \in DOMAIN outbox : outbox[k].what = "telemetry"}

\* What was handed to the gateway last is still queued, and is the queue while
\* the run awaits it.
SentIsQueued ==
  /\ \A d \in Cameras : deviceQueue[d] = NoData => lastDeviceData[d] = NoData
  /\ loop = "sending" => lastDeviceData = deviceQueue

\* A telemetry that is not written yet names nothing but what is queued.  The
\* run that sent it still awaits it and has queued nothing since, or it was
\* given up because another telemetry of that run was rejected: then all that
\* a later run sent is behind it.
ReportsQueued ==
  \A k \in Reports :
    /\ outbox[k].camera \in Cameras
    /\ Keys(outbox[k].counts) \subseteq ClassesOf(deviceQueue[outbox[k].camera])
    /\ outbox[k].awaited =>
         /\ loop = "sending" /\ outbox[k].camera \in awaited
         /\ outbox[k].counts = deviceQueue[outbox[k].camera]
    /\ ~ outbox[k].awaited /\ loop = "sending" => awaited = Queued(deviceQueue)

ReportsInOrder ==
  \A j, k \in Reports :
    j < k /\ outbox[j].awaited => outbox[k].awaited /\ outbox[k].camera # outbox[j].camera

\* What a run no longer awaits, the cloud has.
WrittenIsShown ==
  loop = "sending" =>
    \A d \in Queued(deviceQueue) \ awaited : data[d] = deviceQueue[d]

ReportInv == SentIsQueued /\ ReportsQueued /\ ReportsInOrder /\ WrittenIsShown

-----------------------------------------------------------------------------
(* Sequences of messages.                                                  *)

\* SetToSeq orders a finite set: every element once.
LEMMA SetToSeqIsOrder ==
  ASSUME NEW S, IsFiniteSet(S)
  PROVE  /\ SetToSeq(S) \in Seq(S)
         /\ \A j, k \in DOMAIN SetToSeq(S) : SetToSeq(S)[j] = SetToSeq(S)[k] => j = k
         /\ \A x \in S : \E k \in DOMAIN SetToSeq(S) : SetToSeq(S)[k] = x
<1>1. Cardinality(S) \in Nat /\ ExistsBijection(1 .. Cardinality(S), S)
  BY FS_CardinalityType
<1>2. \E f \in [1 .. Cardinality(S) -> S] : IsInjective(f)
  BY <1>1 DEF ExistsBijection, Bijection, Injection
<1>3. SetToSeq(S) \in [1 .. Cardinality(S) -> S] /\ IsInjective(SetToSeq(S))
  BY <1>2 DEF SetToSeq
<1>4. \A f \in [1 .. Cardinality(S) -> S] : f \in Seq(S)
  BY <1>1
<1>5. Cardinality(1 .. Cardinality(S)) = Cardinality(S)
  BY <1>1, FS_Interval
<1>6. SetToSeq(S) \in Surjection(1 .. Cardinality(S), S)
  BY <1>3, <1>5, FS_Injection DEF Injection
<1> QED BY <1>3, <1>4, <1>6 DEF IsInjective, Surjection

\* What a run sends: a telemetry for each camera with an entry, and only one.
LEMMA TelemetryIsQueue ==
  ASSUME NEW q \in [Cameras -> Counts \cup {NoData}]
  PROVE  /\ Telemetry(q) \in Seq(Message)
         /\ \A k \in DOMAIN Telemetry(q) :
              \E d \in Queued(q) : Telemetry(q)[k] = Event(d, q[d]) /\ q[d] \in Counts
         /\ \A j, k \in DOMAIN Telemetry(q) :
              Telemetry(q)[j].camera = Telemetry(q)[k].camera => j = k
<1> DEFINE s == SetToSeq(Queued(q))
<1>1. IsFiniteSet(Queued(q))
  BY TelemetryAssumption, FS_Subset DEF Queued
<1>2. s \in Seq(Queued(q)) /\ \A j, k \in DOMAIN s : s[j] = s[k] => j = k
  BY <1>1, SetToSeqIsOrder
<1>3. Len(s) \in Nat /\ DOMAIN s = 1 .. Len(s) /\ \A k \in DOMAIN s : s[k] \in Queued(q)
  BY <1>2
<1>4. Telemetry(q) = [k \in DOMAIN s |-> Event(s[k], q[s[k]])]
  BY DEF Telemetry
<1> HIDE DEF s
<1>5. \A d \in Queued(q) : d \in Cameras /\ q[d] \in Counts
  BY DEF Queued
<1>6. \A d \in Queued(q) : Event(d, q[d]) \in Message /\ Event(d, q[d]).camera = d
  BY <1>5 DEF Event, Message
<1>7. Telemetry(q) \in [1 .. Len(s) -> Message]
  BY <1>3, <1>4, <1>6
<1>8. Telemetry(q) \in Seq(Message)
  BY <1>3, <1>7
<1>9. DOMAIN Telemetry(q) = DOMAIN s /\ \A k \in DOMAIN s : Telemetry(q)[k].camera = s[k]
  BY <1>3, <1>4, <1>6
<1> QED BY <1>2, <1>3, <1>4, <1>5, <1>8, <1>9

\* The outbox without its first message.
LEMMA OutboxTail ==
  ASSUME GatewayTypeOK, outbox # <<>>
  PROVE  /\ Head(outbox) = outbox[1] /\ outbox[1] \in Message /\ 1 \in DOMAIN outbox
         /\ Tail(outbox) \in Seq(Message) /\ Len(outbox) \in Nat
         /\ DOMAIN outbox = 1 .. Len(outbox) /\ DOMAIN Tail(outbox) = 1 .. Len(outbox) - 1
         /\ \A k \in DOMAIN Tail(outbox) : k + 1 \in DOMAIN outbox /\ Tail(outbox)[k] = outbox[k + 1]
<1>1. outbox \in Seq(Message) /\ Len(outbox) \in Nat /\ Len(outbox) # 0 /\ DOMAIN outbox = 1 .. Len(outbox)
  BY EmptySeq, LenProperties DEF GatewayTypeOK
<1>2. /\ Tail(outbox) \in Seq(Message) /\ Len(Tail(outbox)) = Len(outbox) - 1
      /\ \A k \in 1 .. Len(Tail(outbox)) : Tail(outbox)[k] = outbox[k + 1]
  BY <1>1, HeadTailProperties
<1>3. DOMAIN Tail(outbox) = 1 .. Len(outbox) - 1
  BY <1>2, LenProperties
<1>4. Head(outbox) = outbox[1] /\ 1 \in DOMAIN outbox /\ outbox[1] \in Message
  BY <1>1
<1> QED BY <1>1, <1>2, <1>3, <1>4

\* A step that writes the first message keeps the cloud's data of their types.
LEMMA WrittenTyped ==
  ASSUME GatewayTypeOK, outbox # <<>>, NEW next \in Seq(Message), Written(next)
  PROVE  GatewayTypeOK'
<1>1. Head(outbox) \in Message /\ outbox' = next
  BY OutboxTail DEF Written
<1>2. data' \in [Cameras -> Counts \cup {NoData}]
  BY <1>1 DEF Written, Message, GatewayTypeOK
<1>3. state' \in [Cameras \cup {GatewayId} -> {"none", "online", "offline"}]
  BY <1>1 DEF Written, Message, GatewayTypeOK
<1> QED BY <1>1, <1>2, <1>3 DEF GatewayTypeOK

-----------------------------------------------------------------------------
(* Types.                                                                  *)

LEMMA ConcludeTyped ==
  ASSUME TypeOK, NEW q \in [Cameras -> Counts \cup {NoData}], Conclude(q)
  PROVE  /\ outbox' \in Seq(Message)
         /\ deviceQueue' = q /\ lastDeviceData' \in [Cameras -> Counts \cup {NoData}]
         /\ loop' \in {"waiting", "looking", "sending", "ended"}
         /\ awaited' \subseteq Cameras /\ tokens' \in 0 .. Burst
<1>1. Telemetry(q) \in Seq(Message)
  BY TelemetryIsQueue
<1>2. CASE HasChanges(q) /\ tokens > 0
  <2>1. outbox' \in Seq(Message)
    <3>1. outbox \in Seq(Message) /\ outbox' = outbox \o Telemetry(q)
      BY <1>2 DEF Conclude, TypeOK, GatewayTypeOK
    <3> QED BY <1>1, <3>1, ConcatProperties
  <2>2. tokens' \in 0 .. Burst
    BY <1>2, TelemetryAssumption DEF Conclude, TypeOK
  <2>3. lastDeviceData' = [d \in Cameras |-> IF q[d] # NoData THEN q[d] ELSE lastDeviceData[d]]
    BY <1>2 DEF Conclude
  <2>4. lastDeviceData' \in [Cameras -> Counts \cup {NoData}]
    BY <2>3 DEF TypeOK
  <2>5. deviceQueue' = q /\ loop' = "sending" /\ awaited' \subseteq Cameras
    BY <1>2 DEF Conclude, Queued
  <2> QED BY <2>1, <2>2, <2>4, <2>5
<1>3. CASE ~ (HasChanges(q) /\ tokens > 0)
  BY <1>3 DEF Conclude, TypeOK, GatewayTypeOK, Again
<1> QED BY <1>2, <1>3

LEMMA ClassifiedQueue ==
  ASSUME TypeOK, NEW d \in Cameras, NEW counts \in Counts
  PROVE  LET old == IF deviceQueue[d] = NoData THEN NoCounts ELSE deviceQueue[d]
             q   == [deviceQueue EXCEPT ![d] = MergeCounts(old, counts)]
         IN  /\ q \in [Cameras -> Counts \cup {NoData}]
             /\ \A e \in Cameras : ClassesOf(q[e]) = IF e = d THEN ClassesOf(deviceQueue[e]) \cup Keys(counts)
                                                     ELSE ClassesOf(deviceQueue[e])
             /\ \A e \in Cameras : q[e] = NoData => deviceQueue[e] = NoData
<1> DEFINE old == IF deviceQueue[d] = NoData THEN NoCounts ELSE deviceQueue[d]
           q   == [deviceQueue EXCEPT ![d] = MergeCounts(old, counts)]
<1>1. deviceQueue \in [Cameras -> Counts \cup {NoData}] /\ NoData \notin Counts
  BY GatewayAssumption DEF TypeOK
<1>2. old \in Counts /\ Keys(old) = ClassesOf(deviceQueue[d])
  BY <1>1, NoCountsKeys DEF ClassesOf
<1>3. /\ MergeCounts(old, counts) \in Counts
      /\ Keys(MergeCounts(old, counts)) = Keys(old) \cup Keys(counts)
  BY <1>2, MergeCountsKeys
<1>4. q \in [Cameras -> Counts \cup {NoData}]
  BY <1>1, <1>3
<1>5. \A e \in Cameras : q[e] = IF e = d THEN MergeCounts(old, counts) ELSE deviceQueue[e]
  BY <1>1
<1> HIDE DEF q, old
<1>6. ASSUME NEW e \in Cameras
      PROVE  ClassesOf(q[e]) = IF e = d THEN ClassesOf(deviceQueue[e]) \cup Keys(counts)
                               ELSE ClassesOf(deviceQueue[e])
  <2>1. CASE e = d
    BY <2>1, <1>1, <1>2, <1>3, <1>5 DEF ClassesOf
  <2>2. CASE e # d
    BY <2>2, <1>5
  <2> QED BY <2>1, <2>2
<1>7. ASSUME NEW e \in Cameras, q[e] = NoData PROVE deviceQueue[e] = NoData
  BY <1>1, <1>3, <1>5, <1>7
<1>8. /\ q \in [Cameras -> Counts \cup {NoData}]
      /\ \A e \in Cameras : ClassesOf(q[e]) = IF e = d THEN ClassesOf(deviceQueue[e]) \cup Keys(counts)
                                              ELSE ClassesOf(deviceQueue[e])
      /\ \A e \in Cameras : q[e] = NoData => deviceQueue[e] = NoData
  BY <1>4, <1>6, <1>7
<1> QED BY <1>8 DEF q, old

\* What a rejected telemetry leaves: the others, which nobody awaits.
Abandoned ==
  [k \in DOMAIN Tail(outbox) |->
     IF Tail(outbox)[k].what = "telemetry" THEN [Tail(outbox)[k] EXCEPT !.awaited = FALSE]
     ELSE Tail(outbox)[k]]

LEMMA AbandonedMessages ==
  ASSUME GatewayTypeOK, outbox # <<>>
  PROVE  /\ Abandoned \in Seq(Message) /\ DOMAIN Abandoned = DOMAIN Tail(outbox)
         /\ \A k \in DOMAIN Abandoned :
              /\ Abandoned[k].what = outbox[k + 1].what
              /\ Abandoned[k].camera = outbox[k + 1].camera
              /\ Abandoned[k].counts = outbox[k + 1].counts
              /\ Abandoned[k].awaited = (outbox[k + 1].awaited /\ outbox[k + 1].what # "telemetry")
<1>1. /\ Tail(outbox) \in Seq(Message) /\ Len(outbox) \in Nat /\ Len(outbox) > 0
      /\ DOMAIN Tail(outbox) = 1 .. Len(outbox) - 1
      /\ \A k \in DOMAIN Tail(outbox) : Tail(outbox)[k] = outbox[k + 1] /\ outbox[k + 1] \in Message
  BY OutboxTail DEF GatewayTypeOK
<1>2. DOMAIN Abandoned = 1 .. Len(outbox) - 1
  BY <1>1 DEF Abandoned
<1>3. ASSUME NEW k \in 1 .. Len(outbox) - 1
      PROVE  /\ Abandoned[k] \in Message
             /\ Abandoned[k].what = outbox[k + 1].what
             /\ Abandoned[k].camera = outbox[k + 1].camera
             /\ Abandoned[k].counts = outbox[k + 1].counts
             /\ Abandoned[k].awaited = (outbox[k + 1].awaited /\ outbox[k + 1].what # "telemetry")
  <2>1. outbox[k + 1] \in Message /\ Tail(outbox)[k] = outbox[k + 1]
    BY <1>1
  <2>2. CASE outbox[k + 1].what = "telemetry"
    <3>1. Abandoned[k] = [outbox[k + 1] EXCEPT !.awaited = FALSE]
      BY <1>1, <2>1, <2>2 DEF Abandoned
    <3> QED BY <2>1, <2>2, <3>1 DEF Message
  <2>3. CASE outbox[k + 1].what # "telemetry"
    <3>1. Abandoned[k] = outbox[k + 1]
      BY <1>1, <2>1, <2>3 DEF Abandoned
    <3> QED BY <2>1, <2>3, <3>1, Zenon DEF Message
  <2> QED BY <2>2, <2>3
<1>4. Abandoned = [k \in 1 .. Len(outbox) - 1 |-> Abandoned[k]]
  BY <1>1 DEF Abandoned
<1>5. Abandoned \in [1 .. Len(outbox) - 1 -> Message]
  BY <1>3, <1>4
<1>6. Abandoned \in Seq(Message)
  BY <1>1, <1>5
<1> QED BY <1>1, <1>2, <1>3, <1>6

\* A step of the loop, of the limiter or of the connection keeps the types.
LEMMA LoopTyped ==
  ASSUME TypeOK, Loop \/ Refill \/ RefreshToken
  PROVE  TypeOK'
<1> USE DEF GatewayTypeOK
<1>1. ASSUME NEW q \in [Cameras -> Counts \cup {NoData}], Conclude(q),
             UNCHANGED <<devices, data, state, stopped>>, looking' \subseteq Cameras
      PROVE  TypeOK'
  BY <1>1, ConcludeTyped DEF TypeOK
<1>2. ASSUME NEW d \in Cameras, NEW q \in [Cameras -> Counts \cup {NoData}], Looked(d, q)
      PROVE  TypeOK'
  <2>1. looking' \subseteq Cameras /\ UNCHANGED <<devices, data, state, stopped>>
    BY <1>2 DEF Looked, TypeOK
  <2>2. CASE looking = {d}
    BY <1>2, <2>1, <2>2, <1>1 DEF Looked
  <2>3. CASE looking # {d}
    BY <1>2, <2>1, <2>3 DEF Looked, TypeOK
  <2> QED BY <2>2, <2>3
<1>3. CASE Run
  <2>1. looking' \subseteq Cameras /\ UNCHANGED <<devices, data, state, stopped>>
    BY <1>3 DEF Run, TypeOK
  <2>2. CASE devices = {}
    BY <1>3, <2>1, <2>2, <1>1 DEF Run, TypeOK
  <2>3. CASE devices # {}
    BY <1>3, <2>1, <2>3 DEF Run, TypeOK, queue
  <2> QED BY <2>2, <2>3
<1>4. CASE Look
  <2>1. ASSUME NEW d \in Cameras, FetchFailed(d) PROVE TypeOK'
    BY <2>1, <1>2 DEF FetchFailed, TypeOK
  <2>2. ASSUME NEW d \in Cameras, NEW counts \in Counts, Classified(d, counts) PROVE TypeOK'
    BY <2>2, <1>2, ClassifiedQueue DEF Classified
  <2> QED BY <1>4, <2>1, <2>2 DEF Look
<1>5. CASE TelemetryWritten
  <2>1. Tail(outbox) \in Seq(Message)
    BY <1>5, OutboxTail DEF TelemetryWritten, TypeOK
  <2>2. GatewayTypeOK'
    BY <1>5, <2>1, WrittenTyped DEF TelemetryWritten, TypeOK
  <2>3. /\ deviceQueue' \in [Cameras -> Counts \cup {NoData}]
        /\ lastDeviceData' \in [Cameras -> Counts \cup {NoData}]
        /\ loop' \in {"waiting", "looking", "sending", "ended"}
        /\ awaited' \subseteq Cameras
    BY <1>5 DEF TelemetryWritten, TypeOK, queue, Again
  <2> QED BY <1>5, <2>2, <2>3 DEF TelemetryWritten, TypeOK
<1>6. CASE TelemetryRejected
  <2>1. Tail(outbox) \in Seq(Message) /\ Abandoned \in Seq(Message)
    BY <1>6, OutboxTail, AbandonedMessages DEF TelemetryRejected, TypeOK
  <2>2. outbox' = Tail(outbox) \/ outbox' = Abandoned
    BY <1>6 DEF TelemetryRejected, Rejected, Abandoned
  <2>3. /\ loop' \in {"waiting", "looking", "sending", "ended"} /\ awaited' \subseteq Cameras
        /\ UNCHANGED <<data, state>>
    BY <1>6 DEF TelemetryRejected, Rejected, TypeOK, Again
  <2> QED BY <1>6, <2>1, <2>2, <2>3 DEF TelemetryRejected, TypeOK, queue
<1>7. CASE Refill
  BY <1>7, TelemetryAssumption DEF Refill, TypeOK, gateway, run, queue
<1>8. CASE RefreshToken
  BY <1>8 DEF RefreshToken, Refresh, TypeOK, run, queue
<1> QED BY <1>3, <1>4, <1>5, <1>6, <1>7, <1>8 DEF Loop

-----------------------------------------------------------------------------
(* What is sent, queued and shown.                                         *)

\* A step that leaves the loop alone, removes at most the first message and
\* adds no telemetry.
LEMMA ReportsKept ==
  ASSUME TypeOK, ReportInv, UNCHANGED run, UNCHANGED data, NEW h \in {0, 1},
         \A k \in Reports' : k \in Int /\ k + h \in Reports /\ outbox'[k] = outbox[k + h]
  PROVE  ReportInv'
<1> USE DEF run, queue
<1>1. SentIsQueued' /\ WrittenIsShown'
  BY DEF ReportInv, SentIsQueued, WrittenIsShown
<1>2. ReportsQueued'
  BY DEF ReportInv, ReportsQueued
<1>3. ReportsInOrder'
  <2> SUFFICES ASSUME NEW j \in Reports', NEW k \in Reports', j < k, outbox'[j].awaited
               PROVE  outbox'[k].awaited /\ outbox'[k].camera # outbox'[j].camera
    BY DEF ReportsInOrder
  <2>1. /\ j \in Int /\ k \in Int /\ j + h \in Reports /\ k + h \in Reports
        /\ outbox'[j] = outbox[j + h] /\ outbox'[k] = outbox[k + h]
    OBVIOUS
  <2>2. j + h < k + h
    BY <2>1
  <2> QED BY <2>1, <2>2 DEF ReportInv, ReportsInOrder
<1> QED BY <1>1, <1>2, <1>3 DEF ReportInv

\* Between two reports the queue grows, and nobody awaits anything.
LEMMA QueueGrows ==
  ASSUME TypeOK, ReportInv, loop # "sending", loop' # "sending",
         UNCHANGED <<outbox, data, lastDeviceData>>,
         \A d \in Cameras : /\ ClassesOf(deviceQueue[d]) \subseteq ClassesOf(deviceQueue'[d])
                            /\ deviceQueue'[d] = NoData => deviceQueue[d] = NoData
  PROVE  ReportInv'
<1>1. Reports' = Reports
  BY DEF Reports
<1>2. SentIsQueued' /\ WrittenIsShown'
  BY DEF ReportInv, SentIsQueued, WrittenIsShown
<1>3. ReportsQueued'
  <2> SUFFICES ASSUME NEW k \in Reports
               PROVE  /\ outbox[k].camera \in Cameras
                      /\ Keys(outbox[k].counts) \subseteq ClassesOf(deviceQueue'[outbox[k].camera])
                      /\ ~ outbox[k].awaited
    BY <1>1 DEF ReportsQueued, ClassesOf
  <2>1. /\ outbox[k].camera \in Cameras
        /\ Keys(outbox[k].counts) \subseteq ClassesOf(deviceQueue[outbox[k].camera])
        /\ ~ outbox[k].awaited
    BY DEF ReportInv, ReportsQueued
  <2> QED BY <2>1
<1>4. ReportsInOrder'
  BY <1>1 DEF ReportInv, ReportsInOrder
<1> QED BY <1>2, <1>3, <1>4 DEF ReportInv

\* A run ends: it reports its queue, or not.
LEMMA ConcludeReports ==
  ASSUME TypeOK, ReportInv, loop # "sending", UNCHANGED data,
         NEW q \in [Cameras -> Counts \cup {NoData}], Conclude(q),
         \A d \in Cameras : /\ ClassesOf(deviceQueue[d]) \subseteq ClassesOf(q[d])
                            /\ q[d] = NoData => deviceQueue[d] = NoData
  PROVE  ReportInv'
<1>1. CASE ~ (HasChanges(q) /\ tokens > 0)
  <2>1. deviceQueue' = q /\ loop' # "sending" /\ UNCHANGED <<outbox, lastDeviceData>>
    BY <1>1 DEF Conclude, Again
  <2> QED BY <2>1, QueueGrows
<1>2. CASE HasChanges(q) /\ tokens > 0
  <2> DEFINE t == Telemetry(q)
  <2>1. PICK n : n = Len(outbox)
    OBVIOUS
  <2>2. /\ deviceQueue' = q /\ loop' = "sending" /\ awaited' = Queued(q) /\ outbox' = outbox \o t
        /\ lastDeviceData' = [d \in Cameras |-> IF q[d] # NoData THEN q[d] ELSE lastDeviceData[d]]
    BY <1>2 DEF Conclude
  <2>3. /\ t \in Seq(Message)
        /\ \A k \in DOMAIN t : \E d \in Queued(q) : t[k] = Event(d, q[d]) /\ q[d] \in Counts
        /\ \A j, k \in DOMAIN t : t[j].camera = t[k].camera => j = k
    BY TelemetryIsQueue
  <2> HIDE DEF t
  <2>4. /\ n \in Nat /\ Len(t) \in Nat /\ DOMAIN outbox = 1 .. n /\ DOMAIN t = 1 .. Len(t)
        /\ DOMAIN outbox' = 1 .. n + Len(t)
        /\ \A k \in 1 .. n + Len(t) : outbox'[k] = IF k <= n THEN outbox[k] ELSE t[k - n]
    <3>1. outbox \in Seq(Message) /\ n \in Nat /\ DOMAIN outbox = 1 .. n
      BY <2>1, LenProperties DEF TypeOK, GatewayTypeOK
    <3>2. /\ outbox \o t \in Seq(Message) /\ Len(outbox \o t) = n + Len(t)
          /\ \A k \in 1 .. n + Len(t) : (outbox \o t)[k] = IF k <= n THEN outbox[k] ELSE t[k - n]
      BY <2>1, <2>3, <3>1, ConcatProperties
    <3> QED BY <2>2, <2>3, <3>1, <3>2, LenProperties
  <2>5. ASSUME NEW k \in Reports'
        PROVE  \/ k \in 1 .. n /\ k \in Reports /\ outbox'[k] = outbox[k]
               \/ k \in n + 1 .. n + Len(t) /\ k - n \in DOMAIN t /\ outbox'[k] = t[k - n]
    BY <2>4 DEF Reports
  <2>6. ASSUME NEW k \in Reports
        PROVE  /\ outbox[k].camera \in Cameras /\ ~ outbox[k].awaited
               /\ Keys(outbox[k].counts) \subseteq ClassesOf(q[outbox[k].camera])
    <3>1. /\ outbox[k].camera \in Cameras /\ ~ outbox[k].awaited
          /\ Keys(outbox[k].counts) \subseteq ClassesOf(deviceQueue[outbox[k].camera])
      BY DEF ReportInv, ReportsQueued
    <3> QED BY <3>1
  <2>7. ASSUME NEW k \in DOMAIN t
        PROVE  /\ t[k].camera \in Queued(q) /\ t[k].camera \in Cameras /\ t[k].awaited
               /\ t[k].counts = q[t[k].camera]
               /\ Keys(t[k].counts) \subseteq ClassesOf(q[t[k].camera])
    <3>1. PICK d \in Queued(q) : t[k] = Event(d, q[d]) /\ q[d] \in Counts
      BY <2>3
    <3> QED BY <3>1 DEF Event, Queued, ClassesOf
  <2>8. SentIsQueued'
    <3>1. \A d \in Cameras : q[d] = NoData => lastDeviceData[d] = NoData
      BY DEF ReportInv, SentIsQueued
    <3>2. lastDeviceData' = q
      BY <2>2, <3>1
    <3> QED BY <2>2, <3>2 DEF SentIsQueued
  <2>9. ReportsQueued'
    <3> SUFFICES ASSUME NEW k \in Reports'
                 PROVE  /\ outbox'[k].camera \in Cameras
                        /\ Keys(outbox'[k].counts) \subseteq ClassesOf(q[outbox'[k].camera])
                        /\ outbox'[k].awaited => /\ outbox'[k].camera \in Queued(q)
                                                 /\ outbox'[k].counts = q[outbox'[k].camera]
      BY <2>2 DEF ReportsQueued, Queued, ClassesOf
    <3>1. CASE k \in Reports /\ outbox'[k] = outbox[k]
      BY <3>1, <2>6
    <3>2. CASE k - n \in DOMAIN t /\ outbox'[k] = t[k - n]
      BY <3>2, <2>7
    <3> QED BY <3>1, <3>2, <2>5
  <2>10. ReportsInOrder'
    <3> SUFFICES ASSUME NEW j \in Reports', NEW k \in Reports', j < k, outbox'[j].awaited
                 PROVE  outbox'[k].awaited /\ outbox'[k].camera # outbox'[j].camera
      BY DEF ReportsInOrder
    <3>1. j \in n + 1 .. n + Len(t) /\ j - n \in DOMAIN t /\ outbox'[j] = t[j - n]
      BY <2>5, <2>6
    <3>2. k \in n + 1 .. n + Len(t) /\ k - n \in DOMAIN t /\ outbox'[k] = t[k - n]
      BY <3>1, <2>4, <2>5
    <3>3. j - n # k - n
      BY <3>1, <3>2, <2>4
    <3> QED BY <3>1, <3>2, <3>3, <2>3, <2>7
  <2>11. WrittenIsShown'
    BY <2>2 DEF WrittenIsShown, Queued
  <2> QED BY <2>8, <2>9, <2>10, <2>11 DEF ReportInv
<1> QED BY <1>1, <1>2

\* A telemetry is written; the last of a run clears the queue.
LEMMA WrittenReports ==
  ASSUME TypeOK, ReportInv, TelemetryWritten
  PROVE  ReportInv'
<1> DEFINE m == outbox[1]
<1>1. /\ outbox # <<>> /\ m = Head(outbox) /\ m \in Message /\ 1 \in Reports /\ m.what = "telemetry"
      /\ outbox' = Tail(outbox)
      /\ data' = [data EXCEPT ![m.camera] = m.counts]
  BY OutboxTail DEF TelemetryWritten, Written, TypeOK, Reports
<1>2. ASSUME NEW k \in Reports'
      PROVE  k \in Int /\ k >= 1 /\ k + 1 \in Reports /\ outbox'[k] = outbox[k + 1]
  BY <1>1, OutboxTail DEF Reports, TypeOK
<1>3. data \in [Cameras -> Counts \cup {NoData}] /\ m.camera \in Cameras
  BY <1>1 DEF TypeOK, GatewayTypeOK, ReportInv, ReportsQueued
<1>4. \A k \in Reports : k \in Int
  BY LenProperties DEF Reports, TypeOK, GatewayTypeOK
<1> HIDE DEF m
<1>5. ReportsInOrder'
  <2> SUFFICES ASSUME NEW j \in Reports', NEW k \in Reports', j < k, outbox'[j].awaited
               PROVE  outbox'[k].awaited /\ outbox'[k].camera # outbox'[j].camera
    BY DEF ReportsInOrder
  <2>1. j + 1 \in Reports /\ k + 1 \in Reports /\ j + 1 < k + 1
    BY <1>2
  <2> QED BY <1>2, <2>1 DEF ReportInv, ReportsInOrder
<1>6. CASE ~ m.awaited
  <2>1. UNCHANGED <<queue, loop, awaited>>
    BY <1>1, <1>6 DEF TelemetryWritten
  <2>2. SentIsQueued' /\ ReportsQueued'
    BY <2>1, <1>2 DEF ReportInv, SentIsQueued, ReportsQueued, queue
  <2>3. WrittenIsShown'
    <3>1. loop = "sending" => awaited = Queued(deviceQueue)
      BY <1>1, <1>6 DEF ReportInv, ReportsQueued, m
    <3> QED BY <2>1, <3>1 DEF WrittenIsShown, queue
  <2> QED BY <1>5, <2>2, <2>3 DEF ReportInv
<1>7. CASE m.awaited
  <2> DEFINE left == awaited \ {m.camera}
  <2>1. /\ loop = "sending" /\ m.camera \in awaited /\ m.counts = deviceQueue[m.camera]
    BY <1>1, <1>7 DEF ReportInv, ReportsQueued, m
  <2>2. ASSUME NEW k \in Reports'
        PROVE  /\ outbox'[k].awaited /\ outbox'[k].camera \in left /\ outbox'[k].camera \in Cameras
               /\ outbox'[k].counts = deviceQueue[outbox'[k].camera]
               /\ Keys(outbox'[k].counts) \subseteq ClassesOf(deviceQueue[outbox'[k].camera])
    <3>1. k + 1 \in Reports /\ 1 < k + 1 /\ outbox'[k] = outbox[k + 1]
      BY <1>2
    <3>2. outbox[k + 1].awaited /\ outbox[k + 1].camera # m.camera
      BY <1>1, <1>7, <3>1 DEF ReportInv, ReportsInOrder, m
    <3> QED BY <3>1, <3>2 DEF ReportInv, ReportsQueued
  <2>3. CASE left # {}
    <3>1. UNCHANGED <<queue, loop>> /\ awaited' = left
      BY <1>1, <1>7, <2>3 DEF TelemetryWritten, m
    <3>2. SentIsQueued'
      BY <3>1 DEF ReportInv, SentIsQueued, queue
    <3>3. ReportsQueued'
      BY <2>1, <2>2, <3>1 DEF ReportsQueued, queue, ClassesOf
    <3>4. WrittenIsShown'
      <4> SUFFICES ASSUME NEW d \in Queued(deviceQueue) \ left PROVE data'[d] = deviceQueue[d]
        BY <3>1 DEF WrittenIsShown, queue, Queued
      <4>1. CASE d = m.camera
        BY <4>1, <1>1, <1>3, <2>1
      <4>2. CASE d # m.camera
        <5>1. d \notin awaited /\ d \in Cameras
          BY <4>2 DEF Queued
        <5>2. data[d] = deviceQueue[d]
          BY <2>1, <5>1 DEF ReportInv, WrittenIsShown
        <5> QED BY <1>1, <1>3, <4>2, <5>1, <5>2
      <4> QED BY <4>1, <4>2
    <3> QED BY <1>5, <3>2, <3>3, <3>4 DEF ReportInv
  <2>4. CASE left = {}
    <3>1. /\ deviceQueue' = [d \in Cameras |-> NoData] /\ lastDeviceData' = deviceQueue'
          /\ loop' # "sending"
      BY <1>1, <1>7, <2>4 DEF TelemetryWritten, m, Again
    <3>2. SentIsQueued' /\ WrittenIsShown'
      BY <3>1 DEF SentIsQueued, WrittenIsShown
    <3>3. ReportsQueued'
      BY <2>2, <2>4 DEF ReportsQueued
    <3> QED BY <1>5, <3>2, <3>3 DEF ReportInv
  <2> QED BY <2>3, <2>4
<1> QED BY <1>6, <1>7

\* A telemetry is rejected: the queue is kept, and the others are given up.
LEMMA RejectedReports ==
  ASSUME TypeOK, ReportInv, TelemetryRejected
  PROVE  ReportInv'
<1>1. /\ outbox # <<>> /\ Head(outbox) = outbox[1] /\ UNCHANGED <<data, state, queue>>
      /\ \A k \in DOMAIN Tail(outbox) :
           k \in Int /\ k + 1 \in DOMAIN outbox /\ Tail(outbox)[k] = outbox[k + 1]
  BY OutboxTail DEF TelemetryRejected, Rejected, TypeOK
<1>2. CASE ~ outbox[1].awaited
  <2>1. outbox' = Tail(outbox) /\ UNCHANGED <<loop, awaited, looking>>
    BY <1>1, <1>2 DEF TelemetryRejected, Rejected
  <2>2. \A k \in Reports' : k \in Int /\ k + 1 \in Reports /\ outbox'[k] = outbox[k + 1]
    BY <1>1, <2>1 DEF Reports
  <2> QED BY <1>1, <2>1, <2>2, ReportsKept DEF run
<1>3. CASE outbox[1].awaited
  <2>1. outbox' = Abandoned /\ loop' # "sending"
    BY <1>1, <1>3 DEF TelemetryRejected, Rejected, Abandoned, Again
  <2>2. \A k \in Reports' : /\ k + 1 \in Reports /\ ~ outbox'[k].awaited
                            /\ outbox'[k].camera = outbox[k + 1].camera
                            /\ outbox'[k].counts = outbox[k + 1].counts
    <3> SUFFICES ASSUME NEW k \in Reports'
                 PROVE  /\ k + 1 \in Reports /\ ~ outbox'[k].awaited
                        /\ outbox'[k].camera = outbox[k + 1].camera
                        /\ outbox'[k].counts = outbox[k + 1].counts
      OBVIOUS
    <3>1. k \in DOMAIN Abandoned /\ Abandoned[k].what = "telemetry"
      BY <2>1 DEF Reports
    <3>2. /\ k \in DOMAIN Tail(outbox)
          /\ Abandoned[k].what = outbox[k + 1].what
          /\ Abandoned[k].camera = outbox[k + 1].camera
          /\ Abandoned[k].counts = outbox[k + 1].counts
          /\ Abandoned[k].awaited = (outbox[k + 1].awaited /\ outbox[k + 1].what # "telemetry")
      BY <1>1, <3>1, AbandonedMessages DEF TypeOK
    <3>3. k + 1 \in Reports
      BY <1>1, <3>1, <3>2 DEF Reports
    <3>4. ~ Abandoned[k].awaited
      BY <3>1, <3>2
    <3> QED BY <2>1, <3>2, <3>3, <3>4
  <2>3. SentIsQueued' /\ WrittenIsShown'
    BY <1>1, <2>1 DEF ReportInv, SentIsQueued, WrittenIsShown, queue
  <2>4. ReportsQueued'
    <3> SUFFICES ASSUME NEW k \in Reports'
                 PROVE  /\ outbox'[k].camera \in Cameras
                        /\ Keys(outbox'[k].counts) \subseteq ClassesOf(deviceQueue[outbox'[k].camera])
      BY <1>1, <2>1, <2>2 DEF ReportsQueued, ClassesOf, queue
    <3> QED BY <2>2 DEF ReportInv, ReportsQueued
  <2>5. ReportsInOrder'
    BY <2>2 DEF ReportsInOrder
  <2> QED BY <2>3, <2>4, <2>5 DEF ReportInv
<1> QED BY <1>2, <1>3

\* Every step of the loop, of the limiter and of the connection.
LEMMA LoopReports ==
  ASSUME TypeOK, ReportInv, Loop \/ Refill \/ RefreshToken
  PROVE  ReportInv'
<1>1. ASSUME NEW q \in [Cameras -> Counts \cup {NoData}], NEW d \in Cameras, Looked(d, q),
             \A e \in Cameras : /\ ClassesOf(deviceQueue[e]) \subseteq ClassesOf(q[e])
                                /\ q[e] = NoData => deviceQueue[e] = NoData
      PROVE  ReportInv'
  <2>1. loop = "looking" /\ UNCHANGED data
    BY <1>1 DEF Looked
  <2>2. CASE looking = {d}
    BY <1>1, <2>1, <2>2, ConcludeReports DEF Looked
  <2>3. CASE looking # {d}
    BY <1>1, <2>1, <2>3, QueueGrows DEF Looked
  <2> QED BY <2>2, <2>3
<1>2. CASE Run
  <2>1. loop = "waiting" /\ UNCHANGED data
    BY <1>2 DEF Run
  <2>2. CASE devices = {}
    BY <1>2, <2>1, <2>2, ConcludeReports DEF Run, TypeOK
  <2>3. CASE devices # {}
    BY <1>2, <2>1, <2>3, QueueGrows DEF Run, queue
  <2> QED BY <2>2, <2>3
<1>3. CASE Look
  <2>1. ASSUME NEW d \in Cameras, FetchFailed(d) PROVE ReportInv'
    BY <2>1, <1>1 DEF FetchFailed, TypeOK
  <2>2. ASSUME NEW d \in Cameras, NEW counts \in Counts, Classified(d, counts) PROVE ReportInv'
    <3> DEFINE old == IF deviceQueue[d] = NoData THEN NoCounts ELSE deviceQueue[d]
               q   == [deviceQueue EXCEPT ![d] = MergeCounts(old, counts)]
    <3>1. /\ q \in [Cameras -> Counts \cup {NoData}]
          /\ \A e \in Cameras : ClassesOf(q[e]) = IF e = d THEN ClassesOf(deviceQueue[e]) \cup Keys(counts)
                                                  ELSE ClassesOf(deviceQueue[e])
          /\ \A e \in Cameras : q[e] = NoData => deviceQueue[e] = NoData
      BY ClassifiedQueue
    <3>2. Looked(d, q)
      BY <2>2 DEF Classified
    <3> HIDE DEF q, old
    <3> QED BY <3>1, <3>2, <1>1
  <2> QED BY <1>3, <2>1, <2>2 DEF Look
<1>4. CASE Refill
  <2>1. Reports' = Reports /\ \A k \in Reports : k \in Int /\ k + 0 = k
    BY <1>4, LenProperties DEF Refill, gateway, Reports, TypeOK, GatewayTypeOK
  <2> QED BY <1>4, <2>1, ReportsKept DEF Refill, gateway
<1>5. CASE RefreshToken
  <2>1. Reports' = {}
    BY <1>5 DEF RefreshToken, Refresh, Reports
  <2> QED BY <1>5, <2>1, ReportsKept DEF RefreshToken, Refresh
<1> QED BY <1>2, <1>3, <1>4, <1>5, WrittenReports, RejectedReports DEF Loop

\* A camera that comes or goes changes nothing of this, if the gateway is left alone.
LEMMA CameraReports ==
  ASSUME TypeOK, ReportInv, NEW d \in Cameras, ServiceUp(d) \/ ServiceDown(d), UNCHANGED gateway
  PROVE  TypeOK' /\ ReportInv'
<1>1. UNCHANGED <<gateway, run, tokens, stopped>> /\ devices' \subseteq Cameras
  BY DEF ServiceUp, ServiceDown, TypeOK
<1>2. TypeOK'
  BY <1>1 DEF TypeOK, GatewayTypeOK, gateway, run, queue
<1>3. Reports' = Reports /\ \A k \in Reports : k \in Int /\ k + 0 = k
  BY <1>1, LenProperties DEF gateway, Reports, TypeOK, GatewayTypeOK
<1>4. ReportInv'
  BY <1>1, <1>3, ReportsKept DEF gateway
<1> QED BY <1>2, <1>4

LEMMA SettledQueue == TypeOK /\ ReportInv => QueueSettled
<1> SUFFICES ASSUME TypeOK, ReportInv PROVE QueueSettled
  OBVIOUS
<1>1. ASSUME NEW k \in DOMAIN outbox, outbox[k].what = "telemetry", outbox[k].awaited
      PROVE  outbox[k].counts = deviceQueue[outbox[k].camera]
  BY <1>1 DEF ReportInv, ReportsQueued, Reports
<1> QED BY <1>1 DEF QueueSettled, ReportInv, SentIsQueued

-----------------------------------------------------------------------------
(* The promise of FindingsLog.                                             *)

\* Queue and data as they are: nothing is found or reported.
LEMMA NothingReported ==
  ASSUME UNCHANGED deviceQueue, UNCHANGED data
  PROVE  UNCHANGED Log!vars
BY DEF Log!vars, ClassesOf

\* The classes of a picture are found.
LEMMA FoundInLog ==
  ASSUME TypeOK, NEW d \in Cameras, NEW counts \in Counts, Classified(d, counts)
  PROVE  Log!Find(d, Keys(counts))
<1> DEFINE old == IF deviceQueue[d] = NoData THEN NoCounts ELSE deviceQueue[d]
           q   == [deviceQueue EXCEPT ![d] = MergeCounts(old, counts)]
<1>1. \A e \in Cameras : ClassesOf(q[e]) = IF e = d THEN ClassesOf(deviceQueue[e]) \cup Keys(counts)
                                           ELSE ClassesOf(deviceQueue[e])
  BY ClassifiedQueue
<1>2. Looked(d, q)
  BY DEF Classified
<1> HIDE DEF q, old
<1>3. deviceQueue' = q /\ UNCHANGED data
  BY <1>2 DEF Looked, Conclude
<1>4. [e \in Cameras |-> ClassesOf(deviceQueue[e])]'
        = [[e \in Cameras |-> ClassesOf(deviceQueue[e])] EXCEPT ![d] = @ \cup Keys(counts)]
  BY <1>1, <1>3 DEF ClassesOf
<1>5. [e \in Cameras |-> ClassesOf(data[e])]' = [e \in Cameras |-> ClassesOf(data[e])]
  BY <1>3 DEF ClassesOf
<1> QED BY <1>4, <1>5 DEF Log!Find

\* A telemetry that is written is a report of what is owed; when it is the
\* last its run awaits, the cloud has been told all that is owed.
LEMMA ReportedInLog ==
  ASSUME TypeOK, ReportInv, TelemetryWritten
  PROVE  \E d \in Cameras, classes \in SUBSET Classes : Log!Report(d, classes)
<1> DEFINE m == outbox[1]
<1>1. /\ m = Head(outbox) /\ m \in Message /\ 1 \in Reports /\ m.what = "telemetry"
      /\ data' = [data EXCEPT ![m.camera] = m.counts]
  BY OutboxTail DEF TelemetryWritten, Written, TypeOK, Reports
<1>2. /\ m.camera \in Cameras /\ m.counts \in Counts /\ Keys(m.counts) \in SUBSET Classes
      /\ Keys(m.counts) \subseteq ClassesOf(deviceQueue[m.camera])
      /\ m.awaited => /\ loop = "sending" /\ m.camera \in awaited
                      /\ m.counts = deviceQueue[m.camera]
  BY <1>1 DEF ReportInv, ReportsQueued, Message, Keys
<1>3. /\ data \in [Cameras -> Counts \cup {NoData}] /\ NoData \notin Counts
      /\ deviceQueue \in [Cameras -> Counts \cup {NoData}]
  BY GatewayAssumption DEF TypeOK, GatewayTypeOK
<1>5. \/ UNCHANGED deviceQueue
      \/ /\ m.awaited /\ awaited \ {m.camera} = {}
         /\ deviceQueue' = [d \in Cameras |-> NoData]
  BY <1>1 DEF TelemetryWritten, queue
<1> HIDE DEF m
<1>6. \A d \in Cameras : ClassesOf(data'[d]) = IF d = m.camera THEN Keys(m.counts) ELSE ClassesOf(data[d])
  BY <1>1, <1>2, <1>3 DEF ClassesOf
<1>7. [d \in Cameras |-> ClassesOf(data[d])]'
        = [[d \in Cameras |-> ClassesOf(data[d])] EXCEPT ![m.camera] = Keys(m.counts)]
  BY <1>6, <1>2 DEF ClassesOf
<1>8. CASE UNCHANGED deviceQueue
  <2>1. [d \in Cameras |-> ClassesOf(deviceQueue[d])]' = [d \in Cameras |-> ClassesOf(deviceQueue[d])]
    BY <1>8 DEF ClassesOf
  <2>2. Log!Report(m.camera, Keys(m.counts))
    BY <2>1, <1>2, <1>7 DEF Log!Report
  <2> QED BY <2>2, <1>2
<1>9. CASE m.awaited /\ awaited \ {m.camera} = {} /\ deviceQueue' = [d \in Cameras |-> NoData]
  <2>1. ASSUME NEW d \in Cameras PROVE ClassesOf(deviceQueue[d]) \subseteq ClassesOf(data'[d])
    <3>1. CASE d = m.camera
      BY <3>1, <1>2, <1>3, <1>6, <1>9 DEF ClassesOf
    <3>2. CASE d # m.camera /\ d \in Queued(deviceQueue)
      <4>1. d \notin awaited
        BY <3>2, <1>9
      <4>2. data[d] = deviceQueue[d]
        BY <3>2, <4>1, <1>2, <1>9 DEF ReportInv, WrittenIsShown
      <4> QED BY <3>2, <4>2, <1>6
    <3>3. CASE d \notin Queued(deviceQueue)
      BY <3>3 DEF Queued, ClassesOf
    <3> QED BY <3>1, <3>2, <3>3
  <2>2. [d \in Cameras |-> ClassesOf(deviceQueue[d])]' = Log!Nothing
    BY <1>9 DEF ClassesOf, Log!Nothing
  <2>3. \A d \in Cameras :
          [e \in Cameras |-> ClassesOf(deviceQueue[e])][d] \subseteq [e \in Cameras |-> ClassesOf(data[e])]'[d]
    BY <2>1 DEF ClassesOf
  <2>4. Log!Report(m.camera, Keys(m.counts))
    BY <2>2, <2>3, <1>2, <1>7 DEF Log!Report
  <2> QED BY <2>4, <1>2
<1> QED BY <1>5, <1>8, <1>9

LEMMA LoopLogged ==
  ASSUME TypeOK, ReportInv, Loop \/ Refill \/ RefreshToken
  PROVE  [Log!Next]_(Log!vars)
<1>1. CASE Run \/ TelemetryRejected \/ Refill \/ RefreshToken
  <2>1. UNCHANGED <<deviceQueue, data>>
    BY <1>1 DEF Run, Conclude, TelemetryRejected, Rejected, Refill, RefreshToken, Refresh, run, queue, gateway
  <2> QED BY <2>1, NothingReported
<1>2. ASSUME NEW d \in Cameras, FetchFailed(d) PROVE [Log!Next]_(Log!vars)
  <2>1. UNCHANGED <<deviceQueue, data>>
    BY <1>2 DEF FetchFailed, Looked, Conclude
  <2> QED BY <2>1, NothingReported
<1>3. ASSUME NEW d \in Cameras, NEW counts \in Counts, Classified(d, counts) PROVE [Log!Next]_(Log!vars)
  <2>1. Log!Find(d, Keys(counts)) /\ Keys(counts) \in SUBSET Classes
    BY <1>3, FoundInLog DEF Keys
  <2> QED BY <2>1 DEF Log!Next
<1>4. CASE TelemetryWritten
  BY <1>4, ReportedInLog DEF Log!Next
<1> QED BY <1>1, <1>2, <1>3, <1>4 DEF Loop, Look

-----------------------------------------------------------------------------
LEMMA InitReports == Init => TypeOK /\ ReportInv /\ Log!Init
<1> SUFFICES ASSUME Init PROVE TypeOK /\ ReportInv /\ Log!Init
  OBVIOUS
<1> USE DEF Init, GatewayInit
<1>1. TypeOK
  <2>1. <<>> \in Seq(Message) /\ Burst \in 0 .. Burst
    BY EmptySeq, TelemetryAssumption
  <2> QED BY <2>1 DEF TypeOK, GatewayTypeOK
<1>2. ReportInv
  <2>1. Reports = {}
    BY DEF Reports
  <2> QED BY <2>1 DEF ReportInv, SentIsQueued, ReportsQueued, ReportsInOrder, WrittenIsShown
<1>3. Log!Init
  BY DEF Log!Init, Log!Nothing, ClassesOf
<1> QED BY <1>1, <1>2, <1>3

LEMMA StepReports ==
  TypeOK /\ ReportInv /\ [Next]_vars => TypeOK' /\ ReportInv' /\ [Log!Next]_(Log!vars)
<1> SUFFICES ASSUME TypeOK, ReportInv, [Next]_vars
             PROVE  TypeOK' /\ ReportInv' /\ [Log!Next]_(Log!vars)
  OBVIOUS
<1>1. CASE Loop \/ Refill \/ RefreshToken
  BY <1>1, LoopTyped, LoopReports, LoopLogged
<1>2. ASSUME NEW d \in Cameras, ServiceUp(d) \/ ServiceDown(d), UNCHANGED gateway
      PROVE  TypeOK' /\ ReportInv' /\ [Log!Next]_(Log!vars)
  BY <1>2, CameraReports, NothingReported DEF ServiceUp, ServiceDown, run, queue, gateway
<1>3. CASE UNCHANGED vars
  <2>1. UNCHANGED <<outbox, data, state, queue, loop, looking, awaited, devices, tokens, stopped>>
    BY <1>3 DEF vars, gateway, run
  <2>2. TypeOK'
    BY <2>1 DEF TypeOK, GatewayTypeOK, queue
  <2>3. Reports' = Reports /\ \A k \in Reports : k \in Int /\ k + 0 = k
    BY <2>1, LenProperties DEF Reports, TypeOK, GatewayTypeOK
  <2>4. ReportInv'
    BY <2>1, <2>3, ReportsKept DEF run
  <2> QED BY <2>1, <2>2, <2>4, NothingReported DEF queue
<1> QED BY <1>1, <1>2, <1>3 DEF Next

\* The state of the loop and of its gateway is of its types.
THEOREM LoopTypeCorrect == Spec => []TypeOK
BY InitReports, StepReports, PTL DEF Spec

\* What clearQueue will throw away is what was sent, whatever is rejected,
\* throttled or lost meanwhile.
THEOREM ClearsWhatWasSent == Spec => []QueueSettled
BY InitReports, StepReports, SettledQueue, PTL DEF Spec

\* The loop keeps the promise of FindingsLog: a finding is owed to the cloud
\* until a telemetry with it has been written.
THEOREM FindingsKept == Spec => NoFindingLost
BY InitReports, StepReports, PTL DEF Spec, NoFindingLost, Log!Spec

-----------------------------------------------------------------------------
(* The whole server.                                                       *)

\* An offline event that stop awaits, for the gateway or a camera.
Farewell(m) == m.what = "offline" /\ m.awaited
FarewellOf(m, d) == Farewell(m) /\ m.camera = d

Says(k, d, what) == outbox[k].camera = d /\ outbox[k].what = what

\* How far start and stop are.
PhaseInv ==
  /\ phase = "loading" => /\ outbox = <<>> /\ devices = {}
                          /\ \A d \in Cameras : state[d] # "online"
  /\ phase \notin {"loading", "up"} => stopped
  /\ phase = "over" => exit # "running"
  /\ phase = "gateway" => leaving = devices
  /\ phase = "grace" => leaving = {}
  /\ phase \in {"devices", "grace"} => state[GatewayId] = "offline"

\* Only stop awaits offline events: the gateway's first, and each once.
FarewellsInv ==
  /\ \A k \in DOMAIN outbox :
       /\ outbox[k].what = "attach" => outbox[k].camera \in Cameras /\ outbox[k].awaited
       /\ outbox[k].camera = GatewayId /\ outbox[k].awaited => outbox[k].what = "offline"
       /\ FarewellOf(outbox[k], GatewayId) => phase \in {"gateway", "over"}
       /\ \A d \in Cameras : FarewellOf(outbox[k], d) => phase \in {"devices", "over"} /\ d \in leaving
  /\ \A j, k \in DOMAIN outbox :
       Farewell(outbox[j]) /\ Farewell(outbox[k]) /\ outbox[j].camera = outbox[k].camera => j = k

\* A message that must not come after the farewells: it attaches a camera, or
\* it shows the gateway online.
Opens(m) == m.what = "attach" \/ (m.camera = GatewayId /\ m.what = "online")

BeforeFarewells ==
  \A k \in DOMAIN outbox : Opens(outbox[k]) =>
    /\ phase \notin {"devices", "grace"}
    /\ phase = "gateway" => \E g \in DOMAIN outbox : g > k /\ FarewellOf(outbox[g], GatewayId)

ShutdownInv == PhaseInv /\ FarewellsInv /\ BeforeFarewells /\ FarewellOrder

\* A camera that is gone, and was not overtaken: its offline event is the last
\* that changes what the cloud shows.
GoneSettles ==
  phase \in {"up", "gateway"} =>
    \A d \in Cameras \ (devices \cup overtaken) :
      /\ \A k \in DOMAIN outbox : ~ Says(k, d, "attach")
      /\ \A k \in DOMAIN outbox : Says(k, d, "online") =>
           \E j \in DOMAIN outbox : j > k /\ Says(j, d, "offline")
      /\ state[d] = "online" => \E j \in DOMAIN outbox : Says(j, d, "offline")

\* A camera that is there, and was not overtaken: it is shown online, or an
\* attach or an online event without an offline event after it is pending.
ThereSettles ==
  phase = "up" =>
    \A d \in devices \ overtaken :
      \/ \E k \in DOMAIN outbox : Says(k, d, "attach")
      \/ \E k \in DOMAIN outbox :
           Says(k, d, "online") /\ \A j \in DOMAIN outbox : j > k => ~ Says(j, d, "offline")
      \/ state[d] = "online" /\ \A j \in DOMAIN outbox : ~ Says(j, d, "offline")

\* All that is pending for a camera that is gone was published before stop.
GoneBeforeFarewell ==
  phase = "gateway" =>
    \A d \in Cameras \ (devices \cup overtaken) : \A k \in DOMAIN outbox :
      Says(k, d, "online") \/ Says(k, d, "offline") =>
        \E g \in DOMAIN outbox : g > k /\ FarewellOf(outbox[g], GatewayId)

\* Once the gateway is offline: the cameras without a farewell are offline, and
\* stay so; the others have one in the outbox.
Leaves ==
  phase \in {"devices", "grace"} =>
    \A d \in Cameras \ (overtaken \ devices) :
      IF d \in leaving THEN \E k \in DOMAIN outbox : FarewellOf(outbox[k], d)
      ELSE state[d] # "online" /\ \A k \in DOMAIN outbox : ~ Says(k, d, "online")

PresenceInv == GoneSettles /\ ThereSettles /\ GoneBeforeFarewell /\ Leaves

-----------------------------------------------------------------------------
(* The outbox.                                                             *)

\* The first h messages are gone, and those of s have been published.
Goes(h, s) ==
  /\ Len(outbox) \in Nat /\ Len(s) \in Nat /\ h \in {0, 1} /\ h <= Len(outbox)
  /\ DOMAIN outbox = 1 .. Len(outbox) /\ \A k \in DOMAIN outbox : outbox[k] \in Message
  /\ DOMAIN outbox' = 1 .. Len(outbox) - h + Len(s)
  /\ \A k \in 1 .. Len(outbox) - h : outbox'[k] = outbox[k + h]
  /\ \A k \in 1 .. Len(s) : outbox'[Len(outbox) - h + k] = s[k]

LEMMA Published ==
  ASSUME GatewayTypeOK, NEW s \in Seq(Message), outbox' = outbox \o s
  PROVE  outbox' \in Seq(Message) /\ Goes(0, s)
<1>1. outbox \in Seq(Message) /\ \A k \in DOMAIN outbox : outbox[k] \in Message
  BY DEF GatewayTypeOK
<1>2. /\ Len(outbox) \in Nat /\ DOMAIN outbox = 1 .. Len(outbox)
      /\ Len(s) \in Nat /\ DOMAIN s = 1 .. Len(s)
  BY <1>1, LenProperties
<1>3. /\ outbox \o s \in Seq(Message) /\ Len(outbox \o s) = Len(outbox) + Len(s)
      /\ \A i \in 1 .. Len(outbox) + Len(s) :
           (outbox \o s)[i] = IF i <= Len(outbox) THEN outbox[i] ELSE s[i - Len(outbox)]
  BY <1>1, ConcatProperties
<1>4. DOMAIN (outbox \o s) = 1 .. Len(outbox) + Len(s)
  BY <1>3, LenProperties
<1> QED BY <1>1, <1>2, <1>3, <1>4 DEF Goes

LEMMA Concluded ==
  ASSUME GatewayTypeOK, outbox # <<>>, NEW s \in Seq(Message), outbox' = Tail(outbox) \o s
  PROVE  outbox' \in Seq(Message) /\ Goes(1, s)
<1>1. /\ Tail(outbox) \in Seq(Message) /\ Len(outbox) \in Nat /\ 1 \in DOMAIN outbox
      /\ DOMAIN outbox = 1 .. Len(outbox) /\ DOMAIN Tail(outbox) = 1 .. Len(outbox) - 1
      /\ \A k \in DOMAIN Tail(outbox) : k + 1 \in DOMAIN outbox /\ Tail(outbox)[k] = outbox[k + 1]
      /\ \A k \in DOMAIN outbox : outbox[k] \in Message
  BY OutboxTail DEF GatewayTypeOK
<1>2. Len(s) \in Nat /\ DOMAIN s = 1 .. Len(s) /\ Len(Tail(outbox)) = Len(outbox) - 1
  BY <1>1, LenProperties
<1>3. /\ Tail(outbox) \o s \in Seq(Message) /\ Len(Tail(outbox) \o s) = Len(Tail(outbox)) + Len(s)
      /\ \A i \in 1 .. Len(Tail(outbox)) + Len(s) :
           (Tail(outbox) \o s)[i] = IF i <= Len(Tail(outbox)) THEN Tail(outbox)[i] ELSE s[i - Len(Tail(outbox))]
  BY <1>1, ConcatProperties
<1>4. DOMAIN (Tail(outbox) \o s) = 1 .. Len(Tail(outbox)) + Len(s)
  BY <1>3, LenProperties
<1> QED BY <1>1, <1>2, <1>3, <1>4 DEF Goes

\* The sequences that a step publishes.
LEMMA NoticeTyped ==
  ASSUME NEW d \in Cameras \cup {GatewayId}, NEW awaited_ \in BOOLEAN,
         NEW what \in {"attach", "detach", "online", "offline"}
  PROVE  Notice(d, what, awaited_) \in Message
BY NoCountsKeys DEF Notice, Message

\* The farewells of a set of cameras: one for each, and no other.
LEMMA FarewellsAreOnce ==
  ASSUME NEW cameras \in SUBSET Cameras
  PROVE  /\ Farewells(cameras) \in Seq(Message)
         /\ \A k \in 1 .. Len(Farewells(cameras)) :
              \E d \in cameras : Farewells(cameras)[k] = Notice(d, "offline", TRUE)
         /\ \A d \in cameras :
              \E k \in 1 .. Len(Farewells(cameras)) : Farewells(cameras)[k] = Notice(d, "offline", TRUE)
         /\ \A j, k \in 1 .. Len(Farewells(cameras)) :
              Farewells(cameras)[j].camera = Farewells(cameras)[k].camera => j = k
<1> DEFINE s == SetToSeq(cameras)
<1>1. IsFiniteSet(cameras)
  BY TelemetryAssumption, FS_Subset
<1>2. /\ s \in Seq(cameras) /\ \A j, k \in DOMAIN s : s[j] = s[k] => j = k
      /\ \A d \in cameras : \E k \in DOMAIN s : s[k] = d
  BY <1>1, SetToSeqIsOrder
<1>3. Len(s) \in Nat /\ DOMAIN s = 1 .. Len(s) /\ \A k \in DOMAIN s : s[k] \in cameras
  BY <1>2
<1>4. Farewells(cameras) = [k \in DOMAIN s |-> Notice(s[k], "offline", TRUE)]
  BY DEF Farewells
<1> HIDE DEF s
<1>5. \A d \in cameras : Notice(d, "offline", TRUE) \in Message /\ Notice(d, "offline", TRUE).camera = d
  BY NoticeTyped DEF Notice
<1>6. Farewells(cameras) \in [1 .. Len(s) -> Message]
  BY <1>3, <1>4, <1>5
<1>7. Farewells(cameras) \in Seq(Message)
  BY <1>3, <1>6
<1>8. Len(Farewells(cameras)) = Len(s)
  BY <1>3, <1>6, <1>7, LenProperties
<1>9. \A k \in 1 .. Len(s) : Farewells(cameras)[k] = Notice(s[k], "offline", TRUE) /\ s[k] \in cameras
  BY <1>3, <1>4
<1>10. ASSUME NEW k \in 1 .. Len(s)
       PROVE  \E d \in cameras : Farewells(cameras)[k] = Notice(d, "offline", TRUE)
  BY <1>9
<1>11. ASSUME NEW d \in cameras
       PROVE  \E k \in 1 .. Len(s) : Farewells(cameras)[k] = Notice(d, "offline", TRUE)
  BY <1>2, <1>3, <1>9
<1>12. ASSUME NEW j \in 1 .. Len(s), NEW k \in 1 .. Len(s), Farewells(cameras)[j].camera = Farewells(cameras)[k].camera
       PROVE  j = k
  <2>1. Farewells(cameras)[j].camera = s[j] /\ Farewells(cameras)[k].camera = s[k]
    BY <1>5, <1>9
  <2> QED BY <1>2, <1>3, <1>12, <2>1
<1> QED BY <1>7, <1>8, <1>10, <1>11, <1>12

-----------------------------------------------------------------------------
(* Types, and what the loop promises, while the rest of the server runs.   *)

\* A step of start, of a camera or of stop, for the outbox and the loop.
Outside(h, s) ==
  /\ Goes(h, s) /\ outbox' \in Seq(Message)
  /\ \A k \in 1 .. Len(s) : s[k].what # "telemetry"
  /\ UNCHANGED <<data, run, tokens>>

LEMMA OutsideReports ==
  ASSUME TypeOK, ReportInv, NEW h, NEW s, Outside(h, s)
  PROVE  ReportInv' /\ UNCHANGED Log!vars
<1>1. h \in {0, 1} /\ UNCHANGED run /\ UNCHANGED data
  BY DEF Outside, Goes
<1>2. ASSUME NEW k \in Reports' PROVE k \in Int /\ k + h \in Reports /\ outbox'[k] = outbox[k + h]
  <2>1. k \in 1 .. Len(outbox) - h + Len(s) /\ outbox'[k].what = "telemetry"
    BY DEF Outside, Goes, Reports
  <2>2. Len(outbox) \in Nat /\ Len(s) \in Nat
    BY DEF Outside, Goes
  <2>3. CASE k \in 1 .. Len(outbox) - h
    <3>1. k + h \in 1 .. Len(outbox) /\ k \in Int
      BY <2>2, <2>3, <1>1
    <3>2. DOMAIN outbox = 1 .. Len(outbox) /\ outbox'[k] = outbox[k + h]
      BY <2>3 DEF Outside, Goes
    <3> QED BY <2>1, <3>1, <3>2 DEF Reports
  <2>4. CASE k \notin 1 .. Len(outbox) - h
    <3>1. k - (Len(outbox) - h) \in 1 .. Len(s)
      BY <2>1, <2>2, <2>4, <1>1
    <3>2. outbox'[Len(outbox) - h + (k - (Len(outbox) - h))] = s[k - (Len(outbox) - h)]
      BY <3>1 DEF Outside, Goes
    <3>3. Len(outbox) - h + (k - (Len(outbox) - h)) = k
      BY <2>1, <2>2, <1>1
    <3> QED BY <2>1, <3>1, <3>2, <3>3 DEF Outside
  <2> QED BY <2>3, <2>4
<1>3. ReportInv'
  BY <1>1, <1>2, ReportsKept
<1> QED BY <1>1, <1>3, NothingReported DEF run, queue

LEMMA OnePublished ==
  ASSUME GatewayTypeOK, NEW m \in Message, m.what # "telemetry",
         outbox' = Append(outbox, m), UNCHANGED <<data, run, tokens>>
  PROVE  Outside(0, <<m>>)
<1>1. outbox \in Seq(Message) /\ <<m>> \in Seq(Message)
  BY DEF GatewayTypeOK
<1>2. outbox' = outbox \o <<m>>
  BY <1>1, AppendIsConcat
<1>3. Goes(0, <<m>>) /\ outbox' \in Seq(Message)
  BY <1>1, <1>2, Published
<1>4. \A k \in 1 .. Len(<<m>>) : <<m>>[k].what # "telemetry"
  OBVIOUS
<1> QED BY <1>3, <1>4 DEF Outside

LEMMA OneConcluded ==
  ASSUME GatewayTypeOK, outbox # <<>>, NEW m \in Message, m.what # "telemetry",
         outbox' = Append(Tail(outbox), m), UNCHANGED <<data, run, tokens>>
  PROVE  Outside(1, <<m>>)
<1>1. Tail(outbox) \in Seq(Message) /\ <<m>> \in Seq(Message)
  BY OutboxTail
<1>2. outbox' = Tail(outbox) \o <<m>>
  BY <1>1, AppendIsConcat
<1>3. Goes(1, <<m>>) /\ outbox' \in Seq(Message)
  BY <1>1, <1>2, Concluded
<1>4. \A k \in 1 .. Len(<<m>>) : <<m>>[k].what # "telemetry"
  OBVIOUS
<1> QED BY <1>3, <1>4 DEF Outside

LEMMA OnlyConcluded ==
  ASSUME GatewayTypeOK, outbox # <<>>, outbox' = Tail(outbox), UNCHANGED <<data, run, tokens>>
  PROVE  Outside(1, <<>>)
<1>1. Tail(outbox) \in Seq(Message) /\ <<>> \in Seq(Message)
  BY OutboxTail, EmptySeq
<1>2. outbox' = Tail(outbox) \o <<>>
  BY <1>1, ConcatEmptySeq
<1>3. Goes(1, <<>>) /\ outbox' \in Seq(Message)
  BY <1>1, <1>2, Concluded
<1>4. \A k \in 1 .. Len(<<>>) : <<>>[k].what # "telemetry"
  OBVIOUS
<1> QED BY <1>3, <1>4 DEF Outside

LEMMA NothingSent ==
  ASSUME GatewayTypeOK, UNCHANGED <<outbox, data, run, tokens>>
  PROVE  Outside(0, <<>>)
<1>1. outbox \in Seq(Message) /\ <<>> \in Seq(Message)
  BY EmptySeq DEF GatewayTypeOK
<1>2. outbox' = outbox \o <<>>
  BY <1>1, ConcatEmptySeq
<1>3. Goes(0, <<>>) /\ outbox' \in Seq(Message)
  BY <1>1, <1>2, Published
<1>4. \A k \in 1 .. Len(<<>>) : <<>>[k].what # "telemetry"
  OBVIOUS
<1> QED BY <1>3, <1>4 DEF Outside

\* The first message of the outbox, of any kind but telemetry, is written.
LEMMA NoticeConcluded ==
  ASSUME GatewayTypeOK, outbox # <<>>, Head(outbox).what # "telemetry", NEW next, Written(next)
  PROVE  /\ Head(outbox) = outbox[1] /\ outbox[1] \in Message /\ outbox' = next /\ UNCHANGED data
         /\ state' = IF outbox[1].what \in {"online", "offline"}
                     THEN [state EXCEPT ![outbox[1].camera] = outbox[1].what] ELSE state
         /\ \A d \in Cameras \cup {GatewayId} :
              state'[d] = IF outbox[1].camera = d /\ outbox[1].what \in {"online", "offline"}
                          THEN outbox[1].what ELSE state[d]
<1>1. Head(outbox) = outbox[1] /\ outbox[1] \in Message
  BY OutboxTail
<1> QED BY <1>1 DEF Written, GatewayTypeOK

\* Each step outside the loop: its types, and what it does to the outbox.
LEMMA OutsideTyped ==
  ASSUME EdgeTypeOK, NEW h, NEW s, Outside(h, s),
         state' \in [Cameras \cup {GatewayId} -> {"none", "online", "offline"}],
         devices' \subseteq Cameras, stopped' \in BOOLEAN, phase' \in Phases,
         leaving' \subseteq Cameras, overtaken' \subseteq Cameras,
         exit' \in {"running", "clean", "forced"}
  PROVE  EdgeTypeOK'
BY DEF EdgeTypeOK, TypeOK, GatewayTypeOK, Outside, run, queue

LEMMA StartSteps ==
  ASSUME EdgeTypeOK, Start
  PROVE  EdgeTypeOK' /\ Outside(0, <<Notice(GatewayId, "online", FALSE)>>)
<1>1. Outside(0, <<Notice(GatewayId, "online", FALSE)>>)
  BY NoticeTyped, OnePublished DEF Start, EdgeTypeOK, TypeOK, Notice
<1> QED BY <1>1, OutsideTyped DEF Start, EdgeTypeOK, TypeOK, GatewayTypeOK, Phases

LEMMA CameraUpSteps ==
  ASSUME EdgeTypeOK, NEW d \in Cameras, CameraUp(d)
  PROVE  EdgeTypeOK' /\ Outside(0, <<Notice(d, "attach", TRUE)>>)
<1>1. Outside(0, <<Notice(d, "attach", TRUE)>>)
  BY NoticeTyped, OnePublished DEF CameraUp, ServiceUp, EdgeTypeOK, TypeOK, Notice
<1> QED BY <1>1, OutsideTyped DEF CameraUp, ServiceUp, EdgeTypeOK, TypeOK, GatewayTypeOK

LEMMA CameraDownSteps ==
  ASSUME EdgeTypeOK, NEW d \in Cameras, CameraDown(d)
  PROVE  EdgeTypeOK' /\ Outside(0, <<Notice(d, "offline", FALSE), Notice(d, "detach", FALSE)>>)
<1> DEFINE s == <<Notice(d, "offline", FALSE), Notice(d, "detach", FALSE)>>
<1>1. s \in Seq(Message)
  <2>1. Notice(d, "offline", FALSE) \in Message /\ Notice(d, "detach", FALSE) \in Message
    BY NoticeTyped
  <2>2. \A a, b \in Message : <<a, b>> \in Seq(Message)
    OBVIOUS
  <2> QED BY <2>1, <2>2
<1>2. \A k \in 1 .. Len(s) : s[k].what # "telemetry"
  BY DEF Notice
<1>3. outbox' = outbox \o s /\ UNCHANGED <<data, run, tokens>>
  BY DEF CameraDown, ServiceDown
<1> HIDE DEF s
<1>4. Outside(0, s)
  BY <1>1, <1>2, <1>3, Published DEF Outside, EdgeTypeOK, TypeOK
<1>5. EdgeTypeOK'
  BY <1>4, OutsideTyped DEF CameraDown, ServiceDown, EdgeTypeOK, TypeOK, GatewayTypeOK
<1> QED BY <1>4, <1>5 DEF s

LEMMA AttachedSteps ==
  ASSUME EdgeTypeOK, Attached
  PROVE  /\ EdgeTypeOK' /\ Outside(1, <<Notice(outbox[1].camera, "online", FALSE)>>)
         /\ outbox[1].what = "attach" /\ UNCHANGED state
<1>1. /\ outbox # <<>> /\ Head(outbox).what = "attach" /\ GatewayTypeOK
      /\ Written(Append(Tail(outbox), Notice(Head(outbox).camera, "online", FALSE)))
      /\ UNCHANGED <<run, devices, tokens, stopped, phase, leaving, exit, overtaken>>
  BY DEF Attached, EdgeTypeOK, TypeOK, server
<1>2. /\ outbox[1].what = "attach" /\ outbox[1] \in Message /\ UNCHANGED <<data, state>>
      /\ outbox' = Append(Tail(outbox), Notice(outbox[1].camera, "online", FALSE))
  BY <1>1, NoticeConcluded
<1>3. Notice(outbox[1].camera, "online", FALSE) \in Message
  BY <1>2, NoticeTyped DEF Message
<1>4. Outside(1, <<Notice(outbox[1].camera, "online", FALSE)>>)
  BY <1>1, <1>2, <1>3, OneConcluded DEF Notice
<1> QED BY <1>1, <1>2, <1>4, OutsideTyped DEF EdgeTypeOK, TypeOK, GatewayTypeOK

\* A message is written and its sender publishes nothing: NoticeWritten, CameraLeft.
LEMMA WrittenSteps ==
  ASSUME EdgeTypeOK, outbox # <<>>, Head(outbox).what # "telemetry", Written(Tail(outbox)),
         UNCHANGED <<run, devices, tokens, stopped>>, phase' \in Phases,
         leaving' \subseteq Cameras, overtaken' \subseteq Cameras, UNCHANGED exit
  PROVE  EdgeTypeOK' /\ Outside(1, <<>>)
<1>1. /\ GatewayTypeOK /\ outbox[1] \in Message /\ outbox' = Tail(outbox) /\ UNCHANGED data
      /\ Tail(outbox) \in Seq(Message)
  BY NoticeConcluded, OutboxTail DEF EdgeTypeOK, TypeOK
<1>2. Outside(1, <<>>) /\ GatewayTypeOK'
  BY <1>1, OnlyConcluded, WrittenTyped
<1> QED BY <1>2, OutsideTyped DEF EdgeTypeOK, TypeOK, GatewayTypeOK

\* A message is rejected and its sender publishes nothing: NoticeRejected, StopReturns.
LEMMA RejectedSteps ==
  ASSUME EdgeTypeOK, outbox # <<>>, Rejected(Tail(outbox)),
         UNCHANGED <<run, devices, tokens, stopped>>, phase' \in Phases,
         leaving' \subseteq Cameras, overtaken' \subseteq Cameras,
         exit' \in {"running", "clean", "forced"}
  PROVE  EdgeTypeOK' /\ Outside(1, <<>>) /\ UNCHANGED state
<1>1. Outside(1, <<>>) /\ UNCHANGED state
  BY OnlyConcluded DEF Rejected, EdgeTypeOK, TypeOK
<1> QED BY <1>1, OutsideTyped DEF EdgeTypeOK, TypeOK, GatewayTypeOK

LEMMA SignalSteps ==
  ASSUME EdgeTypeOK, PhaseInv, Signal
  PROVE  /\ EdgeTypeOK'
         /\ \/ Outside(0, <<>>) /\ phase = "loading" /\ phase' = "over" /\ exit' = "clean"
            \/ /\ Outside(0, <<Notice(GatewayId, "offline", TRUE)>>)
               /\ phase = "up" /\ phase' = "gateway" /\ leaving' = devices
<1>1. CASE phase = "loading"
  <2>1. Outside(0, <<>>)
    BY <1>1, NothingSent DEF Signal, EdgeTypeOK, TypeOK
  <2> QED BY <1>1, <2>1, OutsideTyped DEF Signal, EdgeTypeOK, TypeOK, GatewayTypeOK, Phases
<1>2. CASE phase # "loading"
  <2>1. Outside(0, <<Notice(GatewayId, "offline", TRUE)>>)
    BY <1>2, NoticeTyped, OnePublished DEF Signal, EdgeTypeOK, TypeOK, Notice
  <2>2. phase = "up"
    BY <1>2 DEF Signal, PhaseInv
  <2> QED BY <1>2, <2>1, <2>2, OutsideTyped DEF Signal, EdgeTypeOK, TypeOK, GatewayTypeOK, Phases
<1> QED BY <1>1, <1>2

LEMMA GatewayLeftSteps ==
  ASSUME EdgeTypeOK, FarewellsInv, GatewayLeft
  PROVE  /\ EdgeTypeOK' /\ Outside(1, Farewells(leaving))
         /\ FarewellOf(outbox[1], GatewayId) /\ 1 \in DOMAIN outbox
         /\ state' = [state EXCEPT ![GatewayId] = "offline"]
<1>1. /\ GatewayTypeOK /\ outbox # <<>> /\ Written(Tail(outbox) \o Farewells(leaving))
      /\ Head(outbox).camera = GatewayId /\ Head(outbox).awaited /\ leaving \subseteq Cameras
      /\ UNCHANGED <<run, devices, tokens, stopped, leaving, exit, overtaken>>
      /\ phase' \in {"grace", "devices"}
  BY DEF GatewayLeft, EdgeTypeOK, TypeOK
<1>2. Head(outbox) = outbox[1] /\ outbox[1] \in Message /\ 1 \in DOMAIN outbox /\ Tail(outbox) \in Seq(Message)
  BY <1>1, OutboxTail
<1>3. FarewellOf(outbox[1], GatewayId)
  BY <1>1, <1>2 DEF FarewellsInv, FarewellOf, Farewell
<1>4. /\ outbox' = Tail(outbox) \o Farewells(leaving) /\ UNCHANGED data
      /\ state' = [state EXCEPT ![GatewayId] = "offline"]
  <2>1. outbox[1].what = "offline" /\ outbox[1].camera = GatewayId /\ Head(outbox).what # "telemetry"
    BY <1>2, <1>3 DEF FarewellOf, Farewell
  <2>2. /\ outbox' = Tail(outbox) \o Farewells(leaving) /\ UNCHANGED data
        /\ state' = IF outbox[1].what \in {"online", "offline"}
                    THEN [state EXCEPT ![outbox[1].camera] = outbox[1].what] ELSE state
    BY <1>1, <2>1, NoticeConcluded
  <2> QED BY <2>1, <2>2
<1>5. /\ Farewells(leaving) \in Seq(Message)
      /\ \A k \in 1 .. Len(Farewells(leaving)) : Farewells(leaving)[k].what # "telemetry"
  <2>1. /\ Farewells(leaving) \in Seq(Message)
        /\ \A k \in 1 .. Len(Farewells(leaving)) :
             \E d \in leaving : Farewells(leaving)[k] = Notice(d, "offline", TRUE)
    BY <1>1, FarewellsAreOnce
  <2>2. \A d \in leaving : Notice(d, "offline", TRUE).what # "telemetry"
    BY DEF Notice
  <2> QED BY <2>1, <2>2
<1>6. Outside(1, Farewells(leaving))
  BY <1>1, <1>4, <1>5, Concluded DEF Outside
<1> QED BY <1>1, <1>2, <1>3, <1>4, <1>6, OutsideTyped DEF EdgeTypeOK, TypeOK, GatewayTypeOK, Phases

-----------------------------------------------------------------------------
(* The order of the farewells.                                             *)

\* Before stop has begun with the cameras there is no farewell of one.
LEMMA NoFarewellYet ==
  ASSUME FarewellsInv', phase' \notin {"devices", "over"}
  PROVE  FarewellOrder'
BY DEF FarewellsInv, FarewellOrder, FarewellOf, Farewell

LEMMA StartShuts ==
  ASSUME EdgeTypeOK, ShutdownInv, Start
  PROVE  ShutdownInv'
<1> DEFINE m == Notice(GatewayId, "online", FALSE)
<1>1. outbox = <<>> /\ phase' = "up" /\ phase = "loading" /\ Goes(0, <<m>>)
  BY StartSteps DEF Start, ShutdownInv, PhaseInv, Outside
<1>2. Len(outbox) = 0 /\ DOMAIN outbox' = 1 .. 1 /\ outbox'[1] = m
  <2>1. Len(outbox) = 0 /\ Len(<<m>>) = 1 /\ <<m>>[1] = m /\ 1 \in 1 .. Len(<<m>>)
    BY <1>1
  <2> HIDE DEF m
  <2>2. /\ DOMAIN outbox' = 1 .. Len(outbox) - 0 + Len(<<m>>)
        /\ outbox'[Len(outbox) - 0 + 1] = <<m>>[1]
    BY <1>1, <2>1 DEF Goes
  <2> QED BY <2>1, <2>2
<1>3. PhaseInv'
  BY <1>1 DEF PhaseInv
<1>4. FarewellsInv'
  BY <1>1, <1>2 DEF FarewellsInv, FarewellOf, Farewell, Notice
<1>5. BeforeFarewells'
  BY <1>1 DEF BeforeFarewells
<1> QED BY <1>1, <1>3, <1>4, <1>5, NoFarewellYet DEF ShutdownInv

\* A camera comes or goes: s is what is published for it.
LEMMA CameraShuts ==
  ASSUME EdgeTypeOK, ShutdownInv, phase = "up", UNCHANGED <<state, phase, leaving, exit>>,
         NEW d \in Cameras, NEW s, Goes(0, s),
         \A k \in 1 .. Len(s) : s[k].camera = d /\ ~ Farewell(s[k])
                                /\ (s[k].what = "attach" => s[k].awaited)
  PROVE  ShutdownInv'
<1>1. PhaseInv'
  BY DEF PhaseInv
<1>2. ASSUME NEW k \in DOMAIN outbox'
      PROVE  \/ k \in DOMAIN outbox /\ outbox'[k] = outbox[k]
             \/ /\ outbox'[k].camera = d /\ ~ Farewell(outbox'[k])
                /\ outbox'[k].what = "attach" => outbox'[k].awaited
  <2>1. k \in 1 .. Len(outbox) + Len(s) /\ Len(outbox) \in Nat /\ Len(s) \in Nat
    BY DEF Goes
  <2>2. CASE k <= Len(outbox)
    BY <2>1, <2>2 DEF Goes
  <2>3. CASE k > Len(outbox)
    <3>1. k - Len(outbox) \in 1 .. Len(s) /\ Len(outbox) - 0 + (k - Len(outbox)) = k
      BY <2>1, <2>3
    <3>2. outbox'[k] = s[k - Len(outbox)]
      BY <3>1 DEF Goes
    <3> QED BY <3>1, <3>2
  <2> QED BY <2>1, <2>2, <2>3
<1>3. FarewellsInv'
  BY <1>2, GatewayAssumption DEF ShutdownInv, FarewellsInv, FarewellOf, Farewell
<1>4. BeforeFarewells'
  BY DEF BeforeFarewells
<1> QED BY <1>1, <1>3, <1>4, NoFarewellYet DEF ShutdownInv

LEMMA AttachedShuts ==
  ASSUME EdgeTypeOK, ShutdownInv, Attached
  PROVE  ShutdownInv' /\ phase \in {"up", "gateway"} /\ outbox[1].camera \in Cameras
<1> DEFINE m == Notice(outbox[1].camera, "online", FALSE)
<1>1. /\ Goes(1, <<m>>) /\ outbox[1].what = "attach" /\ UNCHANGED state
      /\ UNCHANGED <<devices, stopped, phase, leaving, exit, overtaken>>
  BY AttachedSteps DEF Attached, Outside, server
<1>2. 1 \in DOMAIN outbox /\ outbox[1].camera \in Cameras
  BY <1>1 DEF Goes, ShutdownInv, FarewellsInv
<1>3. phase \in {"up", "gateway"}
  <2>1. phase \notin {"devices", "grace"}
    BY <1>1, <1>2 DEF ShutdownInv, BeforeFarewells, Opens
  <2>2. phase \notin {"loading", "over"}
    BY DEF Attached, Serving, Alive, ShutdownInv, PhaseInv
  <2> QED BY <2>1, <2>2 DEF EdgeTypeOK, Phases
<1>4. ASSUME NEW k \in DOMAIN outbox'
      PROVE  \/ k + 1 \in DOMAIN outbox /\ outbox'[k] = outbox[k + 1]
             \/ outbox'[k].camera \in Cameras /\ outbox'[k].what = "online" /\ ~ outbox'[k].awaited
  BY <1>1, <1>2 DEF Goes, Notice
<1>5. PhaseInv'
  BY <1>1, <1>3 DEF ShutdownInv, PhaseInv
<1>6. FarewellsInv'
  <2>1. \A k \in DOMAIN outbox' : k \in Int
    BY <1>1 DEF Goes
  <2> QED BY <2>1, <1>1, <1>4, GatewayAssumption DEF ShutdownInv, FarewellsInv, FarewellOf, Farewell
<1>7. BeforeFarewells'
  <2> SUFFICES ASSUME NEW k \in DOMAIN outbox', Opens(outbox'[k]), phase = "gateway"
               PROVE  \E g \in DOMAIN outbox' : g > k /\ FarewellOf(outbox'[g], GatewayId)
    BY <1>1, <1>3 DEF BeforeFarewells
  <2>1. k + 1 \in DOMAIN outbox /\ outbox'[k] = outbox[k + 1]
    BY <1>4, GatewayAssumption DEF Opens
  <2>2. PICK g \in DOMAIN outbox : g > k + 1 /\ FarewellOf(outbox[g], GatewayId)
    BY <2>1 DEF ShutdownInv, BeforeFarewells
  <2>3. g - 1 \in DOMAIN outbox' /\ outbox'[g - 1] = outbox[g] /\ g - 1 > k
    BY <2>1, <2>2, <1>1 DEF Goes
  <2> QED BY <2>2, <2>3
<1>8. FarewellOrder'
  BY <1>1, <1>3, <1>6, NoFarewellYet
<1> QED BY <1>2, <1>3, <1>5, <1>6, <1>7, <1>8 DEF ShutdownInv

\* The first message goes, and nothing is published.
LEMMA HeadGone ==
  ASSUME Goes(1, <<>>)
  PROVE  /\ 1 \in DOMAIN outbox /\ outbox[1] \in Message
         /\ DOMAIN outbox' \subseteq Int /\ DOMAIN outbox \subseteq Int
         /\ \A k \in DOMAIN outbox' : k + 1 \in DOMAIN outbox /\ outbox'[k] = outbox[k + 1]
         /\ \A k \in DOMAIN outbox : k # 1 => k - 1 \in DOMAIN outbox' /\ outbox'[k - 1] = outbox[k]
BY DEF Goes

LEMMA TailShuts ==
  ASSUME EdgeTypeOK, EdgeTypeOK', ShutdownInv, Goes(1, <<>>), PhaseInv',
         phase' \in {phase, "over"} \/ (phase = "devices" /\ phase' = "grace"),
         \A k \in DOMAIN outbox, d \in Cameras :
           k # 1 /\ FarewellOf(outbox[k], d) => phase' \in {"devices", "over"} /\ d \in leaving',
         ~ FarewellOf(outbox[1], GatewayId) \/ phase' = "over",
         phase \in {"devices", "over"} => state'[GatewayId] = state[GatewayId]
  PROVE  ShutdownInv'
<1>1. /\ 1 \in DOMAIN outbox /\ DOMAIN outbox' \subseteq Int /\ DOMAIN outbox \subseteq Int
      /\ \A k \in DOMAIN outbox' : k + 1 \in DOMAIN outbox /\ outbox'[k] = outbox[k + 1]
      /\ \A k \in DOMAIN outbox : k # 1 => k - 1 \in DOMAIN outbox' /\ outbox'[k - 1] = outbox[k]
      /\ \A k \in DOMAIN outbox' : k + 1 # 1
  BY HeadGone DEF Goes
<1>2. FarewellsInv'
  <2>1. ASSUME NEW k \in DOMAIN outbox'
        PROVE  /\ outbox'[k].what = "attach" => outbox'[k].camera \in Cameras /\ outbox'[k].awaited
               /\ outbox'[k].camera = GatewayId /\ outbox'[k].awaited => outbox'[k].what = "offline"
               /\ FarewellOf(outbox'[k], GatewayId) => phase' \in {"gateway", "over"}
               /\ \A d \in Cameras :
                    FarewellOf(outbox'[k], d) => phase' \in {"devices", "over"} /\ d \in leaving'
    BY <1>1 DEF ShutdownInv, FarewellsInv
  <2>2. ASSUME NEW j \in DOMAIN outbox', NEW k \in DOMAIN outbox',
               Farewell(outbox'[j]), Farewell(outbox'[k]), outbox'[j].camera = outbox'[k].camera
        PROVE  j = k
    <3>1. j + 1 = k + 1 /\ j \in Int /\ k \in Int
      BY <1>1, <2>2 DEF ShutdownInv, FarewellsInv
    <3> QED BY <3>1
  <2> QED BY <2>1, <2>2 DEF FarewellsInv, FarewellOf, Farewell
<1>3. BeforeFarewells'
  <2> SUFFICES ASSUME NEW k \in DOMAIN outbox', Opens(outbox'[k])
               PROVE  /\ phase' \notin {"devices", "grace"}
                      /\ phase' = "gateway" =>
                           \E g \in DOMAIN outbox' : g > k /\ FarewellOf(outbox'[g], GatewayId)
    BY DEF BeforeFarewells, Opens, FarewellOf, Farewell
  <2>1. k + 1 \in DOMAIN outbox /\ Opens(outbox[k + 1])
    BY <1>1
  <2>2. phase' \notin {"devices", "grace"}
    BY <2>1 DEF ShutdownInv, BeforeFarewells
  <2>3. ASSUME phase' = "gateway"
        PROVE  \E g \in DOMAIN outbox' : g > k /\ FarewellOf(outbox'[g], GatewayId)
    <3>1. PICK g \in DOMAIN outbox : g > k + 1 /\ FarewellOf(outbox[g], GatewayId)
      BY <2>1, <2>3 DEF ShutdownInv, BeforeFarewells
    <3>2. k \in 1 .. Len(outbox) - 1 /\ Len(outbox) \in Nat /\ g \in 1 .. Len(outbox)
      BY DEF Goes
    <3>3. g # 1 /\ g - 1 > k
      BY <3>1, <3>2
    <3> QED BY <1>1, <3>1, <3>3
  <2> QED BY <2>2, <2>3
<1>4. FarewellOrder'
  <2> SUFFICES ASSUME NEW k \in DOMAIN outbox', outbox'[k].awaited, outbox'[k].what = "offline",
                      outbox'[k].camera \in Cameras
               PROVE  /\ state'[GatewayId] = "offline"
                      /\ \A j \in k + 1 .. Len(outbox') : outbox'[j].what \in {"offline", "telemetry"}
    BY DEF FarewellOrder
  <2>1. k + 1 \in DOMAIN outbox /\ outbox'[k] = outbox[k + 1]
    BY <1>1
  <2>2. /\ state[GatewayId] = "offline"
        /\ \A j \in k + 2 .. Len(outbox) : outbox[j].what \in {"offline", "telemetry"}
    BY <2>1, <1>1 DEF ShutdownInv, FarewellOrder
  <2>3. phase \in {"devices", "over"}
    BY <2>1 DEF ShutdownInv, FarewellsInv, FarewellOf, Farewell
  <2>4. /\ DOMAIN outbox' = 1 .. Len(outbox') /\ Len(outbox') \in Nat
        /\ DOMAIN outbox' = 1 .. Len(outbox) - 1 /\ Len(outbox) \in Nat
    <3>1. outbox' \in Seq(Message)
      BY DEF EdgeTypeOK, TypeOK, GatewayTypeOK
    <3>2. DOMAIN outbox' = 1 .. Len(outbox') /\ Len(outbox') \in Nat
      BY <3>1, LenProperties
    <3>3. DOMAIN outbox' = 1 .. Len(outbox) - 1 + Len(<<>>) /\ Len(outbox) \in Nat
      BY DEF Goes
    <3>4. Len(<<>>) = 0 /\ \A n \in Nat : n - 1 + 0 = n - 1
      OBVIOUS
    <3> QED BY <3>2, <3>3, <3>4
  <2>5. ASSUME NEW j \in k + 1 .. Len(outbox') PROVE outbox'[j].what \in {"offline", "telemetry"}
    <3>1. j \in DOMAIN outbox' /\ j \in Int /\ k \in Int
      BY <2>4, <2>5, <1>1
    <3>2. j + 1 \in k + 2 .. Len(outbox)
      BY <2>4, <2>5, <3>1
    <3> QED BY <3>1, <3>2, <2>2, <1>1
  <2> QED BY <2>2, <2>3, <2>5
<1> QED BY <1>2, <1>3, <1>4 DEF ShutdownInv

LEMMA SignalShuts ==
  ASSUME EdgeTypeOK, ShutdownInv, Signal
  PROVE  ShutdownInv'
<1> USE DEF ShutdownInv
<1>1. /\ Alive /\ ~ stopped /\ stopped' = TRUE
      /\ UNCHANGED <<state, devices, overtaken>>
  BY DEF Signal
<1>2. CASE Outside(0, <<>>) /\ phase = "loading" /\ phase' = "over" /\ exit' = "clean"
  <2>1. outbox = <<>> /\ UNCHANGED outbox /\ outbox' = <<>>
    BY <1>2 DEF Signal, PhaseInv
  <2>2. PhaseInv'
    BY <1>1, <1>2 DEF PhaseInv
  <2> QED BY <2>1, <2>2 DEF FarewellsInv, BeforeFarewells, FarewellOrder
<1>3. CASE /\ Outside(0, <<Notice(GatewayId, "offline", TRUE)>>)
           /\ phase = "up" /\ phase' = "gateway" /\ leaving' = devices
  <2> DEFINE m == Notice(GatewayId, "offline", TRUE)
  <2>1. /\ Len(outbox) \in Nat /\ DOMAIN outbox = 1 .. Len(outbox)
        /\ DOMAIN outbox' = 1 .. Len(outbox) + 1 /\ outbox'[Len(outbox) + 1] = m
        /\ \A k \in 1 .. Len(outbox) : outbox'[k] = outbox[k]
    <3>1. Len(<<m>>) = 1 /\ <<m>>[1] = m /\ 1 \in 1 .. Len(<<m>>)
      OBVIOUS
    <3>2. Goes(0, <<m>>)
      BY <1>3 DEF Outside
    <3> HIDE DEF m
    <3>3. /\ Len(outbox) \in Nat /\ DOMAIN outbox = 1 .. Len(outbox)
          /\ DOMAIN outbox' = 1 .. Len(outbox) - 0 + Len(<<m>>)
          /\ outbox'[Len(outbox) - 0 + 1] = <<m>>[1]
          /\ \A k \in 1 .. Len(outbox) - 0 : outbox'[k] = outbox[k + 0]
      BY <3>1, <3>2 DEF Goes
    <3> QED BY <3>1, <3>3
  <2>2. /\ m.camera = GatewayId /\ m.what = "offline" /\ m.awaited
    BY DEF Notice
  <2> HIDE DEF m
  <2>3. PhaseInv'
    BY <1>1, <1>3 DEF PhaseInv
  <2>4. \A k \in DOMAIN outbox : ~ FarewellOf(outbox[k], GatewayId) /\ \A d \in Cameras : ~ FarewellOf(outbox[k], d)
    BY <1>3 DEF FarewellsInv
  <2>5. FarewellsInv'
    BY <1>3, <2>1, <2>2, <2>4, GatewayAssumption DEF FarewellsInv, FarewellOf, Farewell
  <2>6. BeforeFarewells'
    BY <1>3, <2>1, <2>2 DEF BeforeFarewells, Opens, FarewellOf, Farewell
  <2> QED BY <1>3, <2>3, <2>5, <2>6, NoFarewellYet
<1> QED BY <1>2, <1>3, SignalSteps

\* No message that opens is left once the gateway's farewell is the first.
LEMMA GatewayLeftShuts ==
  ASSUME EdgeTypeOK, EdgeTypeOK', ShutdownInv, GatewayLeft
  PROVE  /\ ShutdownInv'
         /\ \A k \in DOMAIN outbox : k # 1 => ~ FarewellOf(outbox[k], GatewayId)
<1> USE DEF ShutdownInv
<1> DEFINE s == Farewells(leaving)
<1>1. /\ Goes(1, s) /\ FarewellOf(outbox[1], GatewayId) /\ 1 \in DOMAIN outbox
      /\ state' = [state EXCEPT ![GatewayId] = "offline"]
  BY GatewayLeftSteps DEF Outside
<1>2. /\ phase = "gateway" /\ Alive /\ UNCHANGED <<devices, stopped, leaving, exit, overtaken>>
      /\ IF leaving = {} THEN phase' = "grace" ELSE phase' = "devices"
  BY DEF GatewayLeft
<1>3. /\ \A k \in 1 .. Len(s) : \E d \in leaving : s[k] = Notice(d, "offline", TRUE)
      /\ \A j, k \in 1 .. Len(s) : s[j].camera = s[k].camera => j = k
  BY FarewellsAreOnce DEF EdgeTypeOK
<1>4. \A d \in leaving : /\ FarewellOf(Notice(d, "offline", TRUE), d) /\ d \in Cameras
                          /\ Notice(d, "offline", TRUE).camera = d
                          /\ Notice(d, "offline", TRUE).what = "offline"
  BY DEF EdgeTypeOK, FarewellOf, Farewell, Notice
<1>5. /\ Len(outbox) \in Nat /\ Len(s) \in Nat /\ DOMAIN outbox = 1 .. Len(outbox)
      /\ DOMAIN outbox' = 1 .. Len(outbox) - 1 + Len(s) /\ Len(outbox) >= 1
      /\ \A k \in 1 .. Len(outbox) - 1 : outbox'[k] = outbox[k + 1]
      /\ \A k \in 1 .. Len(s) : outbox'[Len(outbox) - 1 + k] = s[k]
  BY <1>1 DEF Goes
<1> HIDE DEF s
<1>6. \A k \in DOMAIN outbox : k # 1 => ~ FarewellOf(outbox[k], GatewayId)
  BY <1>1 DEF FarewellsInv, FarewellOf, Farewell
<1>7. \A k \in DOMAIN outbox : ~ Opens(outbox[k])
  <2> SUFFICES ASSUME NEW k \in DOMAIN outbox, Opens(outbox[k]) PROVE FALSE
    OBVIOUS
  <2>1. PICK g \in DOMAIN outbox : g > k /\ FarewellOf(outbox[g], GatewayId)
    BY <1>2 DEF BeforeFarewells
  <2>2. g # 1
    BY <2>1, <1>5
  <2> QED BY <2>1, <2>2, <1>6
<1>8. \A k \in DOMAIN outbox, d \in Cameras : ~ FarewellOf(outbox[k], d)
  BY <1>2 DEF FarewellsInv
\* A message left, or a farewell of a camera.
<1>9. ASSUME NEW k \in DOMAIN outbox'
      PROVE  \/ /\ k \in 1 .. Len(outbox) - 1 /\ k + 1 \in DOMAIN outbox /\ k + 1 # 1
                /\ outbox'[k] = outbox[k + 1]
             \/ /\ k - (Len(outbox) - 1) \in 1 .. Len(s) /\ outbox'[k] = s[k - (Len(outbox) - 1)]
                /\ \E d \in leaving : FarewellOf(outbox'[k], d) /\ outbox'[k].what = "offline"
  <2>1. CASE k <= Len(outbox) - 1
    BY <2>1, <1>5
  <2>2. CASE k > Len(outbox) - 1
    <3>1. k - (Len(outbox) - 1) \in 1 .. Len(s) /\ Len(outbox) - 1 + (k - (Len(outbox) - 1)) = k
      BY <2>2, <1>5
    <3>2. outbox'[k] = s[k - (Len(outbox) - 1)]
      BY <3>1, <1>5
    <3>3. \E d \in leaving : s[k - (Len(outbox) - 1)] = Notice(d, "offline", TRUE)
      BY <3>1, <1>3
    <3> QED BY <3>1, <3>2, <3>3, <1>4
  <2> QED BY <2>1, <2>2, <1>5
<1>10. PhaseInv'
  BY <1>1, <1>2 DEF PhaseInv, EdgeTypeOK, TypeOK, GatewayTypeOK
<1>11. FarewellsInv'
  <2>1. ASSUME NEW k \in DOMAIN outbox'
        PROVE  /\ outbox'[k].what = "attach" => outbox'[k].camera \in Cameras /\ outbox'[k].awaited
               /\ outbox'[k].camera = GatewayId /\ outbox'[k].awaited => outbox'[k].what = "offline"
               /\ ~ FarewellOf(outbox'[k], GatewayId)
               /\ \A d \in Cameras : FarewellOf(outbox'[k], d) => phase' \in {"devices", "over"} /\ d \in leaving'
    <3>1. CASE k + 1 \in DOMAIN outbox /\ k + 1 # 1 /\ outbox'[k] = outbox[k + 1]
      BY <3>1, <1>6, <1>8 DEF FarewellsInv
    <3>2. CASE \E d \in leaving : FarewellOf(outbox'[k], d) /\ outbox'[k].what = "offline"
      <4>1. PICK d \in leaving : FarewellOf(outbox'[k], d) /\ outbox'[k].what = "offline"
        BY <3>2
      <4>2. outbox'[k].camera = d
        BY <4>1 DEF FarewellOf
      <4>3. d \in Cameras /\ d # GatewayId
        BY <4>1, <1>4, GatewayAssumption
      <4>4. d \in leaving' /\ phase' = "devices"
        BY <4>1, <1>2
      <4> QED BY <4>1, <4>2, <4>3, <4>4 DEF FarewellOf
    <3> QED BY <3>1, <3>2, <1>9
  <2>2. ASSUME NEW j \in DOMAIN outbox', NEW k \in DOMAIN outbox',
               Farewell(outbox'[j]), Farewell(outbox'[k]), outbox'[j].camera = outbox'[k].camera
        PROVE  j = k
    <3>1. \A i \in DOMAIN outbox' : Farewell(outbox'[i]) => i - (Len(outbox) - 1) \in 1 .. Len(s)
                                     /\ outbox'[i] = s[i - (Len(outbox) - 1)]
      <4> SUFFICES ASSUME NEW i \in DOMAIN outbox', Farewell(outbox'[i]),
                          i \in 1 .. Len(outbox) - 1, i + 1 \in DOMAIN outbox, i + 1 # 1,
                          outbox'[i] = outbox[i + 1]
                   PROVE  FALSE
        BY <1>9
      <4>1. outbox[i + 1] \in Message
        BY <1>1 DEF Goes
      <4> QED BY <4>1, <1>6, <1>8 DEF Message, FarewellOf
    <3>2. j - (Len(outbox) - 1) = k - (Len(outbox) - 1) /\ j \in Int /\ k \in Int
      <4>1. /\ j - (Len(outbox) - 1) \in 1 .. Len(s) /\ k - (Len(outbox) - 1) \in 1 .. Len(s)
            /\ s[j - (Len(outbox) - 1)].camera = s[k - (Len(outbox) - 1)].camera
        BY <3>1, <2>2
      <4>2. j \in Int /\ k \in Int
        BY <1>5
      <4> QED BY <4>1, <4>2, <1>3
    <3> QED BY <3>2, <1>5
  <2> QED BY <2>1, <2>2 DEF FarewellsInv
<1>12. BeforeFarewells'
  BY <1>7, <1>9 DEF BeforeFarewells, Opens
<1>13. FarewellOrder'
  <2> SUFFICES ASSUME NEW k \in DOMAIN outbox', outbox'[k].awaited, outbox'[k].what = "offline",
                      outbox'[k].camera \in Cameras
               PROVE  /\ state'[GatewayId] = "offline"
                      /\ \A j \in k + 1 .. Len(outbox') : outbox'[j].what \in {"offline", "telemetry"}
    BY DEF FarewellOrder
  <2>1. k > Len(outbox) - 1 /\ k \in Int
    BY <1>5, <1>8, <1>9 DEF FarewellOf, Farewell
  <2>2. DOMAIN outbox' = 1 .. Len(outbox') /\ Len(outbox') \in Nat
    <3>1. outbox' \in Seq(Message)
      BY DEF EdgeTypeOK, TypeOK, GatewayTypeOK
    <3> QED BY <3>1, LenProperties
  <2>3. ASSUME NEW j \in k + 1 .. Len(outbox') PROVE outbox'[j].what \in {"offline", "telemetry"}
    <3>1. j \in DOMAIN outbox' /\ j \notin 1 .. Len(outbox) - 1
      BY <2>1, <2>2, <1>5
    <3> QED BY <3>1, <1>9
  <2>4. state'[GatewayId] = "offline"
    BY <1>1 DEF EdgeTypeOK, TypeOK, GatewayTypeOK
  <2> QED BY <2>3, <2>4
<1> QED BY <1>6, <1>10, <1>11, <1>12, <1>13

\* What each step that only takes the first message away does.
LEMMA NoticeWrittenSteps ==
  ASSUME EdgeTypeOK, ShutdownInv, NoticeWritten
  PROVE  /\ EdgeTypeOK' /\ Outside(1, <<>>) /\ outbox[1] \in Message
         /\ ~ outbox[1].awaited /\ outbox[1].what \notin {"telemetry", "attach"}
         /\ \A d \in Cameras \cup {GatewayId} :
              state'[d] = IF outbox[1].camera = d /\ outbox[1].what \in {"online", "offline"}
                          THEN outbox[1].what ELSE state[d]
         /\ UNCHANGED <<devices, stopped, phase, leaving, exit, overtaken>>
<1>1. /\ outbox # <<>> /\ Head(outbox).what # "telemetry" /\ ~ Head(outbox).awaited
      /\ Written(Tail(outbox)) /\ GatewayTypeOK
      /\ UNCHANGED <<run, devices, tokens, stopped, phase, leaving, exit, overtaken>>
  BY DEF NoticeWritten, server, EdgeTypeOK, TypeOK
<1>2. Head(outbox) = outbox[1] /\ outbox[1] \in Message /\ 1 \in DOMAIN outbox
  BY <1>1, OutboxTail
<1>3. EdgeTypeOK' /\ Outside(1, <<>>)
  BY <1>1, WrittenSteps DEF EdgeTypeOK
<1>4. outbox[1].what # "attach"
  BY <1>1, <1>2 DEF ShutdownInv, FarewellsInv
<1> QED BY <1>1, <1>2, <1>3, <1>4, NoticeConcluded

LEMMA NoticeWrittenShuts ==
  ASSUME EdgeTypeOK, ShutdownInv, NoticeWritten
  PROVE  ShutdownInv'
<1> USE DEF ShutdownInv
<1>1. /\ EdgeTypeOK' /\ Goes(1, <<>>) /\ ~ outbox[1].awaited /\ 1 \in DOMAIN outbox
      /\ state'[GatewayId] = IF outbox[1].camera = GatewayId /\ outbox[1].what \in {"online", "offline"}
                             THEN outbox[1].what ELSE state[GatewayId]
      /\ UNCHANGED <<devices, stopped, phase, leaving, exit, overtaken>>
      /\ phase \notin {"loading", "over"}
  BY NoticeWrittenSteps, HeadGone DEF Outside, NoticeWritten, Serving, Alive, PhaseInv
<1>2. phase \in {"devices", "grace"} => state[GatewayId] = "offline" /\ state'[GatewayId] = "offline"
  BY <1>1 DEF PhaseInv, BeforeFarewells, Opens
<1>3. PhaseInv'
  BY <1>1, <1>2 DEF PhaseInv
<1>4. ~ FarewellOf(outbox[1], GatewayId)
  BY <1>1 DEF FarewellOf, Farewell
<1>5. \A k \in DOMAIN outbox, d \in Cameras :
        FarewellOf(outbox[k], d) => phase' \in {"devices", "over"} /\ d \in leaving'
  BY <1>1 DEF FarewellsInv
<1>6. phase' = phase /\ (phase \in {"devices", "over"} => state'[GatewayId] = state[GatewayId])
  BY <1>1, <1>2
<1> QED BY <1>1, <1>3, <1>4, <1>5, <1>6, TailShuts

LEMMA NoticeRejectedSteps ==
  ASSUME EdgeTypeOK, NoticeRejected
  PROVE  /\ EdgeTypeOK' /\ Outside(1, <<>>) /\ outbox[1] \in Message /\ UNCHANGED state
         /\ outbox[1].what = "attach" \/ ~ outbox[1].awaited
         /\ overtaken' = overtaken \cup ({outbox[1].camera} \cap Cameras)
         /\ UNCHANGED <<devices, stopped, phase, leaving, exit>>
<1>1. /\ outbox # <<>>
      /\ Head(outbox).what = "attach" \/ ~ Head(outbox).awaited
      /\ Rejected(Tail(outbox)) /\ GatewayTypeOK
      /\ overtaken' = overtaken \cup ({Head(outbox).camera} \cap Cameras)
      /\ UNCHANGED <<run, devices, tokens, stopped, phase, leaving, exit>>
  BY DEF NoticeRejected, EdgeTypeOK, TypeOK
<1>2. Head(outbox) = outbox[1] /\ outbox[1] \in Message
  BY <1>1, OutboxTail
<1>3. EdgeTypeOK' /\ Outside(1, <<>>) /\ UNCHANGED state
  BY <1>1, RejectedSteps DEF EdgeTypeOK
<1> QED BY <1>1, <1>2, <1>3

LEMMA NoticeRejectedShuts ==
  ASSUME EdgeTypeOK, ShutdownInv, NoticeRejected
  PROVE  ShutdownInv'
<1> USE DEF ShutdownInv
<1>1. /\ EdgeTypeOK' /\ Goes(1, <<>>) /\ 1 \in DOMAIN outbox
      /\ outbox[1].what = "attach" \/ ~ outbox[1].awaited
      /\ UNCHANGED <<state, devices, stopped, phase, leaving, exit>>
      /\ phase \notin {"loading", "over"}
  BY NoticeRejectedSteps, HeadGone DEF Outside, NoticeRejected, Serving, Alive, PhaseInv
<1>2. PhaseInv'
  BY <1>1 DEF PhaseInv
<1>3. ~ FarewellOf(outbox[1], GatewayId)
  BY <1>1 DEF FarewellOf, Farewell
<1>4. \A k \in DOMAIN outbox, d \in Cameras :
        FarewellOf(outbox[k], d) => phase' \in {"devices", "over"} /\ d \in leaving'
  BY <1>1 DEF FarewellsInv
<1>5. phase' = phase /\ state'[GatewayId] = state[GatewayId]
  BY <1>1
<1> QED BY <1>1, <1>2, <1>3, <1>4, <1>5, TailShuts

LEMMA CameraLeftSteps ==
  ASSUME EdgeTypeOK, ShutdownInv, CameraLeft
  PROVE  /\ EdgeTypeOK' /\ Outside(1, <<>>) /\ 1 \in DOMAIN outbox
         /\ phase = "devices" /\ outbox[1].camera \in Cameras
         /\ FarewellOf(outbox[1], outbox[1].camera)
         /\ \A d \in Cameras \cup {GatewayId} :
              state'[d] = IF outbox[1].camera = d THEN "offline" ELSE state[d]
         /\ leaving' = leaving \ {outbox[1].camera}
         /\ phase' = IF leaving' = {} THEN "grace" ELSE "devices"
         /\ UNCHANGED <<devices, stopped, exit, overtaken>>
<1>1. /\ outbox # <<>> /\ Head(outbox).what = "offline" /\ Head(outbox).awaited
      /\ Written(Tail(outbox)) /\ GatewayTypeOK /\ phase = "devices"
      /\ leaving' = leaving \ {Head(outbox).camera}
      /\ phase' = IF leaving' = {} THEN "grace" ELSE "devices"
      /\ UNCHANGED <<run, devices, tokens, stopped, exit, overtaken>>
  BY DEF CameraLeft, EdgeTypeOK, TypeOK
<1>2. Head(outbox) = outbox[1] /\ outbox[1] \in Message /\ 1 \in DOMAIN outbox
  BY <1>1, OutboxTail
<1>3. EdgeTypeOK' /\ Outside(1, <<>>)
  BY <1>1, WrittenSteps DEF EdgeTypeOK, Phases
<1>4. FarewellOf(outbox[1], outbox[1].camera) /\ outbox[1].camera \in Cameras
  BY <1>1, <1>2 DEF ShutdownInv, FarewellsInv, FarewellOf, Farewell, Message
<1>5. \A d \in Cameras \cup {GatewayId} :
        state'[d] = IF outbox[1].camera = d /\ outbox[1].what \in {"online", "offline"}
                    THEN outbox[1].what ELSE state[d]
  BY <1>1, NoticeConcluded
<1> QED BY <1>1, <1>2, <1>3, <1>4, <1>5

LEMMA CameraLeftShuts ==
  ASSUME EdgeTypeOK, ShutdownInv, CameraLeft
  PROVE  ShutdownInv'
<1> USE DEF ShutdownInv
<1> DEFINE c == outbox[1].camera
<1>1. /\ EdgeTypeOK' /\ Goes(1, <<>>) /\ 1 \in DOMAIN outbox
      /\ phase = "devices" /\ c \in Cameras /\ FarewellOf(outbox[1], c)
      /\ state'[GatewayId] = state[GatewayId]
      /\ leaving' = leaving \ {c}
      /\ phase' = IF leaving' = {} THEN "grace" ELSE "devices"
      /\ UNCHANGED <<devices, stopped, exit, overtaken>>
  BY CameraLeftSteps, GatewayAssumption DEF Outside
<1>2. PhaseInv'
  BY <1>1 DEF PhaseInv
<1>3. ~ FarewellOf(outbox[1], GatewayId)
  BY <1>1 DEF FarewellsInv
<1>4. ASSUME NEW k \in DOMAIN outbox, NEW d \in Cameras, k # 1, FarewellOf(outbox[k], d)
      PROVE  phase' \in {"devices", "over"} /\ d \in leaving'
  <2>1. d \in leaving
    BY <1>4 DEF FarewellsInv
  <2>2. d # c
    BY <1>1, <1>4 DEF FarewellsInv, FarewellOf
  <2> QED BY <1>1, <2>1, <2>2
<1>5. phase' \in {phase, "over"} \/ (phase = "devices" /\ phase' = "grace")
  BY <1>1
<1> QED BY <1>1, <1>2, <1>3, <1>4, <1>5, TailShuts

LEMMA StopReturnsSteps ==
  ASSUME EdgeTypeOK, StopReturns
  PROVE  /\ EdgeTypeOK'
         /\ (Outside(0, <<>>) /\ UNCHANGED outbox) \/ Outside(1, <<>>)
         /\ phase \in {"grace", "gateway", "devices"} /\ phase' = "over" /\ exit' = "clean"
         /\ UNCHANGED <<state, devices, stopped, leaving, overtaken>>
<1>1. /\ phase' = "over" /\ exit' = "clean"
      /\ UNCHANGED <<run, devices, tokens, stopped, leaving, overtaken>>
  BY DEF StopReturns
<1>2. CASE phase = "grace" /\ UNCHANGED gateway
  <2>1. Outside(0, <<>>) /\ UNCHANGED <<outbox, state>>
    BY <1>1, <1>2, NothingSent DEF gateway, EdgeTypeOK, TypeOK
  <2>2. EdgeTypeOK'
    BY <1>1, <2>1, OutsideTyped DEF EdgeTypeOK, TypeOK, GatewayTypeOK, Phases
  <2> QED BY <1>1, <1>2, <2>1, <2>2
<1>3. CASE /\ phase \in {"gateway", "devices"} /\ outbox # <<>> /\ Rejected(Tail(outbox))
  <2>1. EdgeTypeOK' /\ Outside(1, <<>>) /\ UNCHANGED state
    BY <1>1, <1>3, RejectedSteps DEF EdgeTypeOK, Phases
  <2> QED BY <1>1, <1>3, <2>1
<1> QED BY <1>2, <1>3 DEF StopReturns

LEMMA StopReturnsShuts ==
  ASSUME EdgeTypeOK, ShutdownInv, StopReturns
  PROVE  ShutdownInv'
<1> USE DEF ShutdownInv
<1>1. /\ EdgeTypeOK'
      /\ UNCHANGED outbox \/ Outside(1, <<>>)
      /\ phase \in {"grace", "gateway", "devices"} /\ phase' = "over" /\ exit' = "clean"
      /\ UNCHANGED <<state, devices, stopped, leaving, overtaken>>
  BY StopReturnsSteps
<1>2. PhaseInv'
  BY <1>1 DEF PhaseInv
<1>3. CASE UNCHANGED outbox
  <2>1. FarewellsInv'
    BY <1>1, <1>3 DEF FarewellsInv
  <2>2. BeforeFarewells' /\ FarewellOrder'
    BY <1>1, <1>3 DEF BeforeFarewells, FarewellOrder
  <2> QED BY <1>2, <2>1, <2>2
<1>4. CASE Outside(1, <<>>)
  <2>1. \A k \in DOMAIN outbox, d \in Cameras :
          FarewellOf(outbox[k], d) => phase' \in {"devices", "over"} /\ d \in leaving'
    BY <1>1 DEF FarewellsInv
  <2> QED BY <1>1, <1>2, <1>4, <2>1, TailShuts DEF Outside
<1> QED BY <1>1, <1>3, <1>4

LEMMA ForcedExitSteps ==
  ASSUME EdgeTypeOK, ForcedExit
  PROVE  /\ EdgeTypeOK' /\ Outside(0, <<>>) /\ exit' = "forced"
         /\ UNCHANGED <<outbox, state, devices, stopped, phase, leaving, overtaken>>
<1>1. /\ exit' = "forced"
      /\ UNCHANGED <<outbox, data, state, run, devices, tokens, stopped, phase, leaving, overtaken>>
  BY DEF ForcedExit, vars, gateway
<1>2. Outside(0, <<>>)
  BY <1>1, NothingSent DEF EdgeTypeOK, TypeOK
<1> QED BY <1>1, <1>2, OutsideTyped DEF EdgeTypeOK, TypeOK, GatewayTypeOK

LEMMA ForcedExitShuts ==
  ASSUME EdgeTypeOK, ShutdownInv, ForcedExit
  PROVE  ShutdownInv'
<1>1. exit' # "running" /\ UNCHANGED <<outbox, state, devices, stopped, phase, leaving>>
  BY ForcedExitSteps
<1> QED BY <1>1 DEF ShutdownInv, PhaseInv, FarewellsInv, BeforeFarewells, FarewellOrder

-----------------------------------------------------------------------------
(* The loop's steps, for the messages of the others.                       *)

\* The first h messages are gone, which are telemetry, telemetry of cameras
\* may have been published, and other telemetry is not awaited any more.
OnlyReports(h) ==
  /\ h \in {0, 1} /\ Len(outbox) \in Nat
  /\ DOMAIN outbox = 1 .. Len(outbox) /\ DOMAIN outbox' \subseteq Nat \ {0}
  /\ \A k \in DOMAIN outbox : k <= h => outbox[k].what = "telemetry"
  /\ \A k \in DOMAIN outbox : k > h => k - h \in DOMAIN outbox'
  /\ \A k \in DOMAIN outbox' :
       \/ /\ k + h \in DOMAIN outbox
          /\ outbox'[k].camera = outbox[k + h].camera
          /\ outbox'[k].what = outbox[k + h].what
          /\ outbox'[k].awaited => outbox[k + h].awaited
          /\ outbox[k + h].what # "telemetry" => outbox'[k].awaited = outbox[k + h].awaited
       \/ /\ k + h > Len(outbox)
          /\ outbox'[k].camera \in Cameras /\ outbox'[k].what = "telemetry"

\* The outbox as it is.
LEMMA OutboxIndices ==
  ASSUME GatewayTypeOK
  PROVE  Len(outbox) \in Nat /\ DOMAIN outbox = 1 .. Len(outbox)
BY LenProperties DEF GatewayTypeOK

LEMMA SameReports ==
  ASSUME GatewayTypeOK, UNCHANGED outbox
  PROVE  OnlyReports(0)
<1>1. Len(outbox) \in Nat /\ DOMAIN outbox = 1 .. Len(outbox) /\ \A k \in DOMAIN outbox : k + 0 = k /\ k - 0 = k
  BY OutboxIndices
<1> QED BY <1>1 DEF OnlyReports

LEMMA ConcludeNotices ==
  ASSUME EdgeTypeOK, NEW q \in [Cameras -> Counts \cup {NoData}], Conclude(q)
  PROVE  OnlyReports(0)
<1> DEFINE s == Telemetry(q)
<1>1. GatewayTypeOK
  BY DEF EdgeTypeOK, TypeOK
<1>2. CASE HasChanges(q) /\ tokens > 0
  <2>1. /\ s \in Seq(Message)
        /\ \A k \in DOMAIN s : \E d \in Queued(q) : s[k] = Event(d, q[d])
    BY TelemetryIsQueue
  <2>2. \A k \in 1 .. Len(s) : s[k].camera \in Cameras /\ s[k].what = "telemetry"
    BY <2>1 DEF Event, Queued
  <2>3. outbox' = outbox \o s
    BY <1>2 DEF Conclude
  <2> HIDE DEF s
  <2>4. Goes(0, s)
    BY <1>1, <2>1, <2>3, Published
  <2>5. /\ Len(outbox) \in Nat /\ Len(s) \in Nat
        /\ DOMAIN outbox = 1 .. Len(outbox) /\ DOMAIN outbox' = 1 .. Len(outbox) + Len(s)
        /\ \A k \in 1 .. Len(outbox) : outbox'[k] = outbox[k]
        /\ \A k \in 1 .. Len(s) : outbox'[Len(outbox) + k] = s[k]
    BY <2>4 DEF Goes
  <2>6. ASSUME NEW k \in DOMAIN outbox', k > Len(outbox)
        PROVE  outbox'[k].camera \in Cameras /\ outbox'[k].what = "telemetry"
    <3>1. k - Len(outbox) \in 1 .. Len(s) /\ Len(outbox) + (k - Len(outbox)) = k
      BY <2>5, <2>6
    <3> QED BY <3>1, <2>2, <2>5
  <2> QED BY <2>5, <2>6 DEF OnlyReports
<1>3. CASE ~ (HasChanges(q) /\ tokens > 0)
  BY <1>1, <1>3, SameReports DEF Conclude
<1> QED BY <1>2, <1>3

\* A telemetry is written or rejected.
LEMMA ReportGone ==
  ASSUME GatewayTypeOK, outbox # <<>>, Head(outbox).what = "telemetry",
         outbox' = Tail(outbox) \/ outbox' = Abandoned
  PROVE  OnlyReports(1)
<1>1. /\ outbox[1].what = "telemetry" /\ Len(outbox) \in Nat /\ DOMAIN outbox = 1 .. Len(outbox)
      /\ DOMAIN Tail(outbox) = 1 .. Len(outbox) - 1
      /\ \A k \in DOMAIN Tail(outbox) : Tail(outbox)[k] = outbox[k + 1]
  BY OutboxTail
<1>2. /\ DOMAIN Abandoned = 1 .. Len(outbox) - 1
      /\ \A k \in DOMAIN Abandoned :
              /\ Abandoned[k].what = outbox[k + 1].what
              /\ Abandoned[k].camera = outbox[k + 1].camera
              /\ Abandoned[k].awaited => outbox[k + 1].awaited
              /\ outbox[k + 1].what # "telemetry" => Abandoned[k].awaited = outbox[k + 1].awaited
  <2>1. DOMAIN Abandoned = 1 .. Len(outbox) - 1
    BY <1>1, AbandonedMessages
  <2>2. ASSUME NEW k \in DOMAIN Abandoned
        PROVE  /\ Abandoned[k].what = outbox[k + 1].what
               /\ Abandoned[k].camera = outbox[k + 1].camera
               /\ Abandoned[k].awaited = (outbox[k + 1].awaited /\ outbox[k + 1].what # "telemetry")
    BY AbandonedMessages
  <2>3. \A k \in DOMAIN Abandoned : outbox[k + 1] \in Message
    BY <1>1, <2>1 DEF GatewayTypeOK
  <2>4. \A k \in DOMAIN Abandoned : outbox[k + 1].awaited \in BOOLEAN
    BY <2>3 DEF Message
  <2>5. \A k \in DOMAIN Abandoned :
           /\ Abandoned[k].awaited => outbox[k + 1].awaited
           /\ outbox[k + 1].what # "telemetry" => Abandoned[k].awaited = outbox[k + 1].awaited
    BY <2>2, <2>4, Zenon
  <2> QED BY <2>1, <2>2, <2>5
<1>3. CASE outbox' = Tail(outbox)
  BY <1>1, <1>3 DEF OnlyReports
<1>4. CASE outbox' = Abandoned
  BY <1>1, <1>2, <1>4 DEF OnlyReports
<1> QED BY <1>3, <1>4

\* What the loop, the limiter and the connection do to the messages of the
\* others: nothing, unless an outage drops the whole outbox.
LEMMA LoopNotices ==
  ASSUME EdgeTypeOK, Loop \/ Refill \/ RefreshToken
  PROVE  /\ UNCHANGED <<devices, stopped, state>>
         /\ \/ \E h \in {0, 1} : OnlyReports(h)
            \/ Outages /\ outbox' = <<>>
<1>1. GatewayTypeOK /\ TypeOK
  BY DEF EdgeTypeOK, TypeOK
<1>2. ASSUME NEW q \in [Cameras -> Counts \cup {NoData}], NEW d \in Cameras, Looked(d, q)
      PROVE  OnlyReports(0) /\ UNCHANGED <<devices, stopped, state>>
  BY <1>1, <1>2, ConcludeNotices, SameReports DEF Looked
<1>3. CASE Run
  BY <1>1, <1>3, ConcludeNotices, SameReports DEF Run, TypeOK
<1>4. CASE Look
  <2>1. ASSUME NEW d \in Cameras, FetchFailed(d) PROVE OnlyReports(0) /\ UNCHANGED <<devices, stopped, state>>
    BY <2>1, <1>1, <1>2 DEF FetchFailed, TypeOK
  <2>2. ASSUME NEW d \in Cameras, NEW counts \in Counts, Classified(d, counts)
        PROVE  OnlyReports(0) /\ UNCHANGED <<devices, stopped, state>>
    BY <2>2, <1>1, <1>2, ClassifiedQueue DEF Classified
  <2> QED BY <1>4, <2>1, <2>2 DEF Look
<1>5. CASE TelemetryWritten
  <2>1. OnlyReports(1)
    BY <1>1, <1>5, ReportGone DEF TelemetryWritten, Written
  <2> QED BY <1>5, <2>1 DEF TelemetryWritten, Written
<1>6. CASE TelemetryRejected
  <2>1. outbox # <<>> /\ Head(outbox).what = "telemetry" /\ (outbox' = Tail(outbox) \/ outbox' = Abandoned)
    BY <1>6 DEF TelemetryRejected, Rejected, Abandoned
  <2>2. OnlyReports(1)
    BY <1>1, <2>1, ReportGone
  <2> QED BY <1>6, <2>2 DEF TelemetryRejected, Rejected
<1>7. CASE Refill
  BY <1>1, <1>7, SameReports DEF Refill, gateway
<1>8. CASE RefreshToken
  <2>1. CASE Outages
    BY <1>8, <2>1 DEF RefreshToken, Refresh
  <2>2. CASE UNCHANGED outbox
    BY <1>1, <1>8, <2>2, SameReports DEF RefreshToken, Refresh
  <2> QED BY <1>8, <2>1, <2>2 DEF RefreshToken, Refresh
<1> QED BY <1>3, <1>4, <1>5, <1>6, <1>7, <1>8 DEF Loop

LEMMA LoopShuts ==
  ASSUME EdgeTypeOK, EdgeTypeOK', ShutdownInv, Serving, Loop \/ Refill \/ RefreshToken, UNCHANGED server
  PROVE  ShutdownInv'
<1> USE DEF ShutdownInv
<1>1. UNCHANGED <<devices, stopped, state, phase, leaving, exit, overtaken>> /\ phase # "loading"
  BY LoopNotices DEF server, Serving
<1>2. PhaseInv'
  BY <1>1 DEF PhaseInv
<1>3. CASE outbox' = <<>>
  BY <1>2, <1>3 DEF FarewellsInv, BeforeFarewells, FarewellOrder
<1>4. ASSUME NEW h \in {0, 1}, OnlyReports(h) PROVE ShutdownInv'
  <2>1. /\ h \in Nat /\ Len(outbox) \in Nat /\ DOMAIN outbox = 1 .. Len(outbox)
        /\ DOMAIN outbox' \subseteq Nat \ {0}
    BY <1>4 DEF OnlyReports
  \* A message that is not telemetry is an old one.
  <2>2. ASSUME NEW k \in DOMAIN outbox', outbox'[k].what # "telemetry"
        PROVE  /\ k + h \in DOMAIN outbox /\ outbox'[k].camera = outbox[k + h].camera
               /\ outbox'[k].what = outbox[k + h].what /\ outbox'[k].awaited = outbox[k + h].awaited
    BY <1>4, <2>2 DEF OnlyReports
  <2>3. ASSUME NEW k \in DOMAIN outbox, outbox[k].what # "telemetry"
        PROVE  /\ k - h \in DOMAIN outbox' /\ outbox'[k - h].camera = outbox[k].camera
               /\ outbox'[k - h].what = outbox[k].what /\ outbox'[k - h].awaited = outbox[k].awaited
    <3>1. k - h \in DOMAIN outbox' /\ k - h + h = k
      BY <1>4, <2>1, <2>3 DEF OnlyReports
    <3> QED BY <1>4, <3>1, <2>1, <2>3 DEF OnlyReports
  <2>4. FarewellsInv'
    <3>1. ASSUME NEW k \in DOMAIN outbox'
          PROVE  /\ outbox'[k].what = "attach" => outbox'[k].camera \in Cameras /\ outbox'[k].awaited
                 /\ outbox'[k].camera = GatewayId /\ outbox'[k].awaited => outbox'[k].what = "offline"
                 /\ FarewellOf(outbox'[k], GatewayId) => phase' \in {"gateway", "over"}
                 /\ \A d \in Cameras : FarewellOf(outbox'[k], d) => phase' \in {"devices", "over"} /\ d \in leaving'
      <4>1. CASE outbox'[k].what # "telemetry"
        BY <1>1, <2>2, <4>1 DEF FarewellsInv, FarewellOf, Farewell
      <4>2. CASE outbox'[k].what = "telemetry"
        <5>1. ~ (outbox'[k].camera = GatewayId /\ outbox'[k].awaited)
          BY <1>4, <4>2, GatewayAssumption DEF OnlyReports, FarewellsInv
        <5> QED BY <4>2, <5>1 DEF FarewellOf, Farewell
      <4> QED BY <4>1, <4>2
    <3>2. ASSUME NEW j \in DOMAIN outbox', NEW k \in DOMAIN outbox',
                 Farewell(outbox'[j]), Farewell(outbox'[k]), outbox'[j].camera = outbox'[k].camera
          PROVE  j = k
      <4>1. j + h = k + h
        BY <2>2, <3>2 DEF FarewellsInv, Farewell
      <4> QED BY <4>1, <2>1
    <3> QED BY <3>1, <3>2 DEF FarewellsInv, FarewellOf, Farewell
  <2>5. BeforeFarewells'
    <3> SUFFICES ASSUME NEW k \in DOMAIN outbox', Opens(outbox'[k])
                 PROVE  /\ phase \notin {"devices", "grace"}
                        /\ phase = "gateway" =>
                             \E g \in DOMAIN outbox' : g > k /\ FarewellOf(outbox'[g], GatewayId)
      BY <1>1 DEF BeforeFarewells, Opens
    <3>1. k + h \in DOMAIN outbox /\ Opens(outbox[k + h])
      BY <2>2 DEF Opens
    <3>2. phase \notin {"devices", "grace"}
      BY <3>1 DEF BeforeFarewells
    <3>3. ASSUME phase = "gateway"
          PROVE  \E g \in DOMAIN outbox' : g > k /\ FarewellOf(outbox'[g], GatewayId)
      <4>1. PICK g \in DOMAIN outbox : g > k + h /\ FarewellOf(outbox[g], GatewayId)
        BY <3>1, <3>3 DEF BeforeFarewells
      <4>2. g - h > k
        BY <4>1, <2>1
      <4>3. g - h \in DOMAIN outbox' /\ FarewellOf(outbox'[g - h], GatewayId)
        BY <4>1, <2>3 DEF FarewellOf, Farewell
      <4> QED BY <4>2, <4>3
    <3> QED BY <3>2, <3>3
  <2>6. FarewellOrder'
    <3> SUFFICES ASSUME NEW k \in DOMAIN outbox', outbox'[k].awaited, outbox'[k].what = "offline",
                        outbox'[k].camera \in Cameras
                 PROVE  /\ state[GatewayId] = "offline"
                        /\ \A j \in k + 1 .. Len(outbox') : outbox'[j].what \in {"offline", "telemetry"}
      BY <1>1 DEF FarewellOrder
    <3>1. /\ state[GatewayId] = "offline"
          /\ \A j \in k + h + 1 .. Len(outbox) : outbox[j].what \in {"offline", "telemetry"}
      BY <2>2 DEF FarewellOrder
    <3>2. DOMAIN outbox' = 1 .. Len(outbox') /\ Len(outbox') \in Nat
      <4>1. outbox' \in Seq(Message)
        BY DEF EdgeTypeOK, TypeOK, GatewayTypeOK
      <4> QED BY <4>1, LenProperties
    <3>3. ASSUME NEW j \in k + 1 .. Len(outbox') PROVE outbox'[j].what \in {"offline", "telemetry"}
      <4>1. j \in DOMAIN outbox' /\ j \in Int /\ k \in Int /\ k >= 1
        BY <3>2, <2>1
      <4>2. CASE outbox'[j].what # "telemetry"
        <5>1. j + h \in DOMAIN outbox /\ outbox'[j].what = outbox[j + h].what
          BY <4>1, <4>2, <2>2
        <5>2. j + h \in k + h + 1 .. Len(outbox)
          BY <4>1, <5>1, <2>1
        <5> QED BY <5>1, <5>2, <3>1
      <4> QED BY <4>2
    <3> QED BY <3>1, <3>3
  <2> QED BY <1>2, <2>4, <2>5, <2>6
<1> QED BY <1>3, <1>4, LoopNotices

-----------------------------------------------------------------------------
(* The whole server.                                                       *)

EdgeInv == EdgeTypeOK /\ ReportInv /\ ShutdownInv

LEMMA EdgeInitInv == EdgeInit => EdgeInv /\ Log!Init
<1> SUFFICES ASSUME EdgeInit PROVE EdgeInv /\ Log!Init
  OBVIOUS
<1>1. TypeOK /\ ReportInv /\ Log!Init
  BY InitReports DEF EdgeInit
<1>2. outbox = <<>> /\ devices = {} /\ phase = "loading" /\ exit = "running"
      /\ leaving = {} /\ overtaken = {} /\ \A d \in Cameras : state[d] # "online"
  BY DEF EdgeInit, Init, GatewayInit
<1>3. EdgeTypeOK
  BY <1>1, <1>2 DEF EdgeTypeOK, Phases
<1>4. ShutdownInv
  BY <1>2 DEF ShutdownInv, PhaseInv, FarewellsInv, BeforeFarewells, FarewellOrder
<1> QED BY <1>1, <1>3, <1>4 DEF EdgeInv

LEMMA CameraStepsShut ==
  ASSUME EdgeTypeOK, ShutdownInv, NEW d \in Cameras, CameraUp(d) \/ CameraDown(d)
  PROVE  EdgeTypeOK' /\ ShutdownInv' /\ \E s : Outside(0, s)
<1>1. CASE CameraUp(d)
  <2> DEFINE s == <<Notice(d, "attach", TRUE)>>
  <2>1. EdgeTypeOK' /\ Outside(0, s)
    BY <1>1, CameraUpSteps
  <2>2. \A k \in 1 .. Len(s) : s[k].camera = d /\ ~ Farewell(s[k]) /\ (s[k].what = "attach" => s[k].awaited)
    BY DEF Farewell, Notice
  <2>3. phase = "up" /\ UNCHANGED <<state, phase, leaving, exit>>
    BY <1>1 DEF CameraUp
  <2> HIDE DEF s
  <2> QED BY <2>1, <2>2, <2>3, CameraShuts DEF Outside
<1>2. CASE CameraDown(d)
  <2> DEFINE s == <<Notice(d, "offline", FALSE), Notice(d, "detach", FALSE)>>
  <2>1. EdgeTypeOK' /\ Outside(0, s)
    BY <1>2, CameraDownSteps
  <2>2. \A k \in 1 .. Len(s) : s[k].camera = d /\ ~ Farewell(s[k]) /\ (s[k].what = "attach" => s[k].awaited)
    BY DEF Farewell, Notice
  <2>3. phase = "up" /\ UNCHANGED <<state, phase, leaving, exit>>
    BY <1>2 DEF CameraDown
  <2> HIDE DEF s
  <2> QED BY <2>1, <2>2, <2>3, CameraShuts DEF Outside
<1> QED BY <1>1, <1>2

\* Every step but those of the loop.
LEMMA OutsideSteps ==
  ASSUME EdgeTypeOK, ShutdownInv, Start \/ CamerasChange \/ Notices \/ Shutdown
  PROVE  EdgeTypeOK' /\ ShutdownInv' /\ \E h, s : Outside(h, s)
<1>1. CASE Start
  BY <1>1, StartSteps, StartShuts
<1>2. CASE CamerasChange
  BY <1>2, CameraStepsShut DEF CamerasChange
<1>3. CASE Attached
  BY <1>3, AttachedSteps, AttachedShuts
<1>4. CASE NoticeWritten
  BY <1>4, NoticeWrittenSteps, NoticeWrittenShuts
<1>5. CASE NoticeRejected
  BY <1>5, NoticeRejectedSteps, NoticeRejectedShuts
<1>6. CASE Signal
  BY <1>6, SignalSteps, SignalShuts DEF ShutdownInv
<1>7. CASE GatewayLeft
  BY <1>7, GatewayLeftSteps, GatewayLeftShuts DEF ShutdownInv
<1>8. CASE CameraLeft
  BY <1>8, CameraLeftSteps, CameraLeftShuts
<1>9. CASE StopReturns
  BY <1>9, StopReturnsSteps, StopReturnsShuts
<1>10. CASE ForcedExit
  BY <1>10, ForcedExitSteps, ForcedExitShuts
<1> QED BY <1>1, <1>2, <1>3, <1>4, <1>5, <1>6, <1>7, <1>8, <1>9, <1>10 DEF Notices, Shutdown

LEMMA EdgeStepInv == EdgeInv /\ [EdgeNext]_all => EdgeInv' /\ [Log!Next]_(Log!vars)
<1> SUFFICES ASSUME EdgeInv, [EdgeNext]_all PROVE EdgeInv' /\ [Log!Next]_(Log!vars)
  OBVIOUS
<1> USE DEF EdgeInv
<1>1. TypeOK
  BY DEF EdgeTypeOK
<1>2. CASE Start \/ CamerasChange \/ Notices \/ Shutdown
  BY <1>1, <1>2, OutsideSteps, OutsideReports
<1>3. CASE Serving /\ (Loop \/ Refill \/ RefreshToken) /\ UNCHANGED server
  <2>1. TypeOK' /\ ReportInv' /\ [Log!Next]_(Log!vars)
    BY <1>1, <1>3, LoopTyped, LoopReports, LoopLogged
  <2>2. EdgeTypeOK'
    BY <1>3, <2>1 DEF EdgeTypeOK, server
  <2> QED BY <1>3, <2>1, <2>2, LoopShuts
<1>4. CASE UNCHANGED all
  <2>1. /\ UNCHANGED <<outbox, data, state, run, devices, tokens, stopped>>
        /\ UNCHANGED <<phase, leaving, exit, overtaken>>
    BY <1>4 DEF all, vars, gateway, server
  <2>2. Outside(0, <<>>)
    BY <2>1, NothingSent DEF TypeOK, EdgeTypeOK
  <2>3. ReportInv' /\ UNCHANGED Log!vars
    BY <1>1, <2>2, OutsideReports
  <2>4. EdgeTypeOK'
    BY <2>1, <2>2, OutsideTyped DEF EdgeTypeOK, TypeOK, GatewayTypeOK
  <2>5. ShutdownInv'
    BY <2>1 DEF ShutdownInv, PhaseInv, FarewellsInv, BeforeFarewells, FarewellOrder
  <2> QED BY <2>3, <2>4, <2>5
<1> QED BY <1>2, <1>3, <1>4 DEF EdgeNext

\* The state of the whole server is of its types.
THEOREM EdgeTypeCorrect == EdgeSpec => []EdgeTypeOK
<1>1. EdgeInv => EdgeTypeOK
  BY DEF EdgeInv
<1> QED BY <1>1, EdgeInitInv, EdgeStepInv, PTL DEF EdgeSpec

\* While a camera's farewell is under way the gateway is offline, and nothing
\* that would open what is closed comes after it.
THEOREM FarewellsInOrder == EdgeSpec => []FarewellOrder
<1>1. EdgeInv => FarewellOrder
  BY DEF EdgeInv, ShutdownInv
<1> QED BY <1>1, EdgeInitInv, EdgeStepInv, PTL DEF EdgeSpec

\* Whatever comes, goes, is rejected or stops, what clearQueue throws away is
\* what was sent.
THEOREM EdgeClearsWhatWasSent == EdgeSpec => []QueueSettled
<1>1. EdgeInv => QueueSettled
  BY SettledQueue DEF EdgeInv, EdgeTypeOK
<1> QED BY <1>1, EdgeInitInv, EdgeStepInv, PTL DEF EdgeSpec

\* The whole server keeps the promise of FindingsLog, in every order of
\* cameras, messages and signals.
THEOREM EdgeKeepsFindings == EdgeSpec => NoFindingLost
BY EdgeInitInv, EdgeStepInv, PTL DEF EdgeSpec, NoFindingLost, Log!Spec

-----------------------------------------------------------------------------
(* What the cloud shows of the cameras settles, if no outage drops the     *)
(* outbox: what is dropped is never sent again.                            *)

\* After start nothing of a camera is pending.
LEMMA StartSettles ==
  ASSUME EdgeTypeOK, ShutdownInv, Start
  PROVE  PresenceInv'
<1> DEFINE m == Notice(GatewayId, "online", FALSE)
<1>1. /\ outbox = <<>> /\ devices = {} /\ phase' = "up" /\ UNCHANGED <<state, devices>>
      /\ \A d \in Cameras : state[d] # "online"
  BY DEF Start, ShutdownInv, PhaseInv
<1>2. outbox' = Append(outbox, m) /\ m.camera = GatewayId
  BY DEF Start, Notice
<1>3. Len(outbox) = 0 /\ <<>> \in Seq(Message) /\ m \in Message
  BY <1>1, EmptySeq, NoticeTyped
<1> HIDE DEF m
<1>4. \A k \in DOMAIN outbox' : outbox'[k].camera = GatewayId
  BY <1>1, <1>2, <1>3
<1>5. \A d \in Cameras, k \in DOMAIN outbox', what \in {"attach", "online", "offline"} : ~ Says(k, d, what)'
  BY <1>4, GatewayAssumption DEF Says
<1>6. GoneSettles' /\ ThereSettles'
  BY <1>1, <1>5 DEF GoneSettles, ThereSettles, Says
<1>7. GoneBeforeFarewell' /\ Leaves'
  BY <1>1 DEF GoneBeforeFarewell, Leaves
<1> QED BY <1>6, <1>7 DEF PresenceInv

\* Outbox' is the outbox and s.
LEMMA Longer ==
  ASSUME NEW s, Goes(0, s)
  PROVE  /\ Len(outbox) \in Nat /\ Len(s) \in Nat /\ DOMAIN outbox = 1 .. Len(outbox)
         /\ DOMAIN outbox' = 1 .. Len(outbox) + Len(s)
         /\ \A k \in DOMAIN outbox : k \in DOMAIN outbox' /\ outbox'[k] = outbox[k]
         /\ \A k \in 1 .. Len(s) : Len(outbox) + k \in DOMAIN outbox' /\ outbox'[Len(outbox) + k] = s[k]
         /\ \A k \in DOMAIN outbox' : k \notin DOMAIN outbox =>
              k > Len(outbox) /\ \E i \in 1 .. Len(s) : k = Len(outbox) + i /\ outbox'[k] = s[i]
<1>1. /\ Len(outbox) \in Nat /\ Len(s) \in Nat /\ DOMAIN outbox = 1 .. Len(outbox)
      /\ DOMAIN outbox' = 1 .. Len(outbox) + Len(s)
      /\ \A k \in 1 .. Len(outbox) : outbox'[k] = outbox[k]
      /\ \A k \in 1 .. Len(s) : outbox'[Len(outbox) + k] = s[k]
  BY DEF Goes
<1>2. ASSUME NEW k \in DOMAIN outbox', k \notin DOMAIN outbox
      PROVE  k > Len(outbox) /\ \E i \in 1 .. Len(s) : k = Len(outbox) + i /\ outbox'[k] = s[i]
  <2>1. k - Len(outbox) \in 1 .. Len(s) /\ k = Len(outbox) + (k - Len(outbox)) /\ k > Len(outbox)
    BY <1>1, <1>2
  <2> QED BY <1>1, <2>1
<1> QED BY <1>1, <1>2

LEMMA CameraUpSettles ==
  ASSUME EdgeTypeOK, PresenceInv, NEW d \in Cameras, CameraUp(d)
  PROVE  PresenceInv'
<1> USE DEF PresenceInv
<1> DEFINE s == <<Notice(d, "attach", TRUE)>>
<1>1. /\ phase = "up" /\ UNCHANGED <<state, phase>> /\ devices' = devices \cup {d}
      /\ overtaken' = overtaken \ {d}
  BY DEF CameraUp, ServiceUp
<1>2. Goes(0, s)
  BY CameraUpSteps DEF Outside
<1>3. /\ Len(s) = 1 /\ \A k \in 1 .. Len(s) : s[k].camera = d /\ s[k].what = "attach"
  BY DEF Notice
<1> HIDE DEF s
<1>4. /\ \A k \in DOMAIN outbox : k \in DOMAIN outbox' /\ outbox'[k] = outbox[k]
      /\ \A k \in DOMAIN outbox' : k \notin DOMAIN outbox => outbox'[k].camera = d /\ outbox'[k].what = "attach"
      /\ \E k \in DOMAIN outbox' : outbox'[k].camera = d /\ outbox'[k].what = "attach"
  <2>1. /\ \A k \in DOMAIN outbox : k \in DOMAIN outbox' /\ outbox'[k] = outbox[k]
        /\ \A k \in 1 .. Len(s) : Len(outbox) + k \in DOMAIN outbox' /\ outbox'[Len(outbox) + k] = s[k]
        /\ \A k \in DOMAIN outbox' : k \notin DOMAIN outbox => \E i \in 1 .. Len(s) : outbox'[k] = s[i]
    BY <1>2, Longer
  <2>2. 1 \in 1 .. Len(s)
    BY <1>3
  <2> QED BY <1>3, <2>1, <2>2
<1>5. GoneSettles'
  BY <1>1, <1>4 DEF GoneSettles, Says
<1>6. ThereSettles'
  <2> SUFFICES ASSUME NEW e \in devices', e \notin overtaken'
               PROVE  \/ \E k \in DOMAIN outbox' : outbox'[k].camera = e /\ outbox'[k].what = "attach"
                      \/ \E k \in DOMAIN outbox' :
                           /\ outbox'[k].camera = e /\ outbox'[k].what = "online"
                           /\ \A j \in DOMAIN outbox' : j > k => ~ (outbox'[j].camera = e /\ outbox'[j].what = "offline")
                      \/ state'[e] = "online"
                         /\ \A j \in DOMAIN outbox' : ~ (outbox'[j].camera = e /\ outbox'[j].what = "offline")
    BY DEF ThereSettles, Says
  <2>1. CASE e = d
    BY <2>1, <1>4
  <2>2. CASE e # d
    BY <2>2, <1>1, <1>4 DEF ThereSettles, Says
  <2> QED BY <2>1, <2>2
<1>7. GoneBeforeFarewell' /\ Leaves'
  BY <1>1 DEF GoneBeforeFarewell, Leaves
<1> QED BY <1>5, <1>6, <1>7

LEMMA CameraDownSettles ==
  ASSUME EdgeTypeOK, PresenceInv, NEW d \in Cameras, CameraDown(d)
  PROVE  PresenceInv'
<1> USE DEF PresenceInv
<1> DEFINE s == <<Notice(d, "offline", FALSE), Notice(d, "detach", FALSE)>>
<1>1. /\ phase = "up" /\ UNCHANGED <<state, phase>> /\ devices' = devices \ {d}
      /\ overtaken \subseteq overtaken'
      /\ d \notin overtaken' => ~ Pending(d, {"attach"})
  BY DEF CameraDown, ServiceDown
<1>2. Goes(0, s)
  BY CameraDownSteps DEF Outside
<1>3. /\ Len(s) = 2 /\ s[1].camera = d /\ s[1].what = "offline"
      /\ \A k \in 1 .. Len(s) : s[k].camera = d /\ s[k].what \in {"offline", "detach"}
  BY DEF Notice
<1> HIDE DEF s
<1>4. /\ \A k \in DOMAIN outbox : k \in DOMAIN outbox' /\ outbox'[k] = outbox[k]
      /\ \A k \in DOMAIN outbox' : k \notin DOMAIN outbox =>
           outbox'[k].camera = d /\ outbox'[k].what \in {"offline", "detach"}
  BY <1>2, <1>3, Longer
<1>5. \E j \in DOMAIN outbox' : /\ outbox'[j].camera = d /\ outbox'[j].what = "offline"
                               /\ \A k \in DOMAIN outbox : j > k
  <2>1. /\ Len(outbox) + 1 \in DOMAIN outbox' /\ outbox'[Len(outbox) + 1] = s[1]
        /\ \A k \in DOMAIN outbox : Len(outbox) + 1 > k
    <3>1. /\ Len(outbox) \in Nat /\ DOMAIN outbox = 1 .. Len(outbox)
          /\ \A k \in 1 .. Len(s) : Len(outbox) + k \in DOMAIN outbox' /\ outbox'[Len(outbox) + k] = s[k]
      BY <1>2, Longer
    <3>2. 1 \in 1 .. Len(s)
      BY <1>3
    <3> QED BY <3>1, <3>2
  <2> QED BY <1>3, <2>1
<1>6. GoneSettles'
  <2> SUFFICES ASSUME NEW e \in Cameras, e \notin devices', e \notin overtaken'
               PROVE  /\ \A k \in DOMAIN outbox' : ~ (outbox'[k].camera = e /\ outbox'[k].what = "attach")
                      /\ \A k \in DOMAIN outbox' : outbox'[k].camera = e /\ outbox'[k].what = "online" =>
                           \E j \in DOMAIN outbox' : j > k /\ outbox'[j].camera = e /\ outbox'[j].what = "offline"
                      /\ state'[e] = "online" =>
                           \E j \in DOMAIN outbox' : outbox'[j].camera = e /\ outbox'[j].what = "offline"
    BY DEF GoneSettles, Says
  <2>1. CASE e = d
    <3>1. \A k \in DOMAIN outbox : ~ (outbox[k].camera = d /\ outbox[k].what = "attach")
      BY <2>1, <1>1 DEF Pending
    <3> QED BY <2>1, <3>1, <1>4, <1>5
  <2>2. CASE e # d
    <3>1. e \notin devices /\ e \notin overtaken
      BY <2>2, <1>1
    <3> QED BY <2>2, <3>1, <1>1, <1>4 DEF GoneSettles, Says
  <2> QED BY <2>1, <2>2
<1>7. ThereSettles'
  <2> SUFFICES ASSUME NEW e \in devices', e \notin overtaken'
               PROVE  \/ \E k \in DOMAIN outbox' : outbox'[k].camera = e /\ outbox'[k].what = "attach"
                      \/ \E k \in DOMAIN outbox' :
                           /\ outbox'[k].camera = e /\ outbox'[k].what = "online"
                           /\ \A j \in DOMAIN outbox' : j > k => ~ (outbox'[j].camera = e /\ outbox'[j].what = "offline")
                      \/ state'[e] = "online"
                         /\ \A j \in DOMAIN outbox' : ~ (outbox'[j].camera = e /\ outbox'[j].what = "offline")
    BY DEF ThereSettles, Says
  <2>1. e # d /\ e \in devices /\ e \notin overtaken
    BY <1>1
  <2> QED BY <2>1, <1>1, <1>4 DEF ThereSettles, Says
<1>8. GoneBeforeFarewell' /\ Leaves'
  BY <1>1 DEF GoneBeforeFarewell, Leaves
<1> QED BY <1>6, <1>7, <1>8

\* The online event of an attach that is written comes last, and only for a
\* camera that is there or was overtaken.
LEMMA AttachedSettles ==
  ASSUME EdgeTypeOK, ShutdownInv, PresenceInv, Attached
  PROVE  PresenceInv'
<1> USE DEF PresenceInv
<1> DEFINE c == outbox[1].camera
           m == Notice(c, "online", FALSE)
<1>1. /\ Goes(1, <<m>>) /\ outbox[1].what = "attach" /\ phase \in {"up", "gateway"} /\ c \in Cameras
      /\ UNCHANGED <<state, devices, phase, overtaken>>
  BY AttachedSteps, AttachedShuts DEF Outside, Attached, server
<1>2. m.camera = c /\ m.what = "online"
  BY DEF Notice
<1>3. Len(<<m>>) = 1 /\ <<m>>[1] = m /\ 1 \in 1 .. Len(<<m>>)
  OBVIOUS
<1> HIDE DEF m
<1>4. /\ 1 \in DOMAIN outbox /\ Len(outbox) \in Nat /\ DOMAIN outbox = 1 .. Len(outbox)
      /\ DOMAIN outbox' = 1 .. Len(outbox) /\ outbox'[Len(outbox)] = m
      /\ \A k \in 1 .. Len(outbox) - 1 : outbox'[k] = outbox[k + 1]
  <2>1. /\ Len(outbox) \in Nat /\ 1 <= Len(outbox) /\ DOMAIN outbox = 1 .. Len(outbox)
        /\ DOMAIN outbox' = 1 .. Len(outbox) - 1 + Len(<<m>>)
        /\ outbox'[Len(outbox) - 1 + 1] = <<m>>[1]
        /\ \A k \in 1 .. Len(outbox) - 1 : outbox'[k] = outbox[k + 1]
    BY <1>1, <1>3 DEF Goes
  <2> QED BY <1>3, <2>1
<1>5. phase \in {"up", "gateway"} => c \in devices \cup overtaken
  BY <1>1, <1>4 DEF GoneSettles, Says
<1> HIDE DEF c
<1>6. ASSUME NEW k \in DOMAIN outbox'
      PROVE  \/ k + 1 \in DOMAIN outbox /\ k + 1 > 1 /\ outbox'[k] = outbox[k + 1]
             \/ outbox'[k].camera = c /\ outbox'[k].what = "online" /\ k = Len(outbox)
  BY <1>2, <1>4
<1>7. ASSUME NEW k \in DOMAIN outbox, k # 1
      PROVE  k - 1 \in DOMAIN outbox' /\ outbox'[k - 1] = outbox[k]
  BY <1>4, <1>7
<1>8. DOMAIN outbox' \subseteq Int /\ DOMAIN outbox \subseteq Int
  BY <1>4
<1>9. GoneSettles'
  <2> SUFFICES ASSUME NEW e \in Cameras, e \notin devices, e \notin overtaken
               PROVE  /\ \A k \in DOMAIN outbox' : ~ (outbox'[k].camera = e /\ outbox'[k].what = "attach")
                      /\ \A k \in DOMAIN outbox' : outbox'[k].camera = e /\ outbox'[k].what = "online" =>
                           \E j \in DOMAIN outbox' : j > k /\ outbox'[j].camera = e /\ outbox'[j].what = "offline"
                      /\ state[e] = "online" =>
                           \E j \in DOMAIN outbox' : outbox'[j].camera = e /\ outbox'[j].what = "offline"
    BY <1>1 DEF GoneSettles, Says
  <2>1. e # c
    BY <1>1, <1>5
  <2>2. \A k \in DOMAIN outbox' : ~ (outbox'[k].camera = e /\ outbox'[k].what = "attach")
    BY <2>1, <1>1, <1>6 DEF GoneSettles, Says
  <2>3. ASSUME NEW k \in DOMAIN outbox', outbox'[k].camera = e, outbox'[k].what = "online"
        PROVE  \E j \in DOMAIN outbox' : j > k /\ outbox'[j].camera = e /\ outbox'[j].what = "offline"
    <3>1. k + 1 \in DOMAIN outbox /\ outbox'[k] = outbox[k + 1]
      BY <2>1, <2>3, <1>6
    <3>2. PICK j \in DOMAIN outbox : j > k + 1 /\ outbox[j].camera = e /\ outbox[j].what = "offline"
      BY <2>3, <3>1, <1>1 DEF GoneSettles, Says
    <3>3. j # 1 /\ j - 1 > k
      BY <3>1, <3>2, <1>8, <1>4
    <3> QED BY <3>2, <3>3, <1>7
  <2>4. ASSUME state[e] = "online"
        PROVE  \E j \in DOMAIN outbox' : outbox'[j].camera = e /\ outbox'[j].what = "offline"
    <3>1. PICK j \in DOMAIN outbox : outbox[j].camera = e /\ outbox[j].what = "offline"
      BY <2>4, <1>1 DEF GoneSettles, Says
    <3>2. j # 1
      BY <3>1, <1>1
    <3> QED BY <3>1, <3>2, <1>7
  <2> QED BY <2>2, <2>3, <2>4
<1>10. ThereSettles'
  <2> SUFFICES ASSUME phase = "up", NEW e \in devices, e \notin overtaken
               PROVE  \/ \E k \in DOMAIN outbox' : outbox'[k].camera = e /\ outbox'[k].what = "attach"
                      \/ \E k \in DOMAIN outbox' :
                           /\ outbox'[k].camera = e /\ outbox'[k].what = "online"
                           /\ \A j \in DOMAIN outbox' : j > k => ~ (outbox'[j].camera = e /\ outbox'[j].what = "offline")
                      \/ state[e] = "online"
                         /\ \A j \in DOMAIN outbox' : ~ (outbox'[j].camera = e /\ outbox'[j].what = "offline")
    BY <1>1 DEF ThereSettles, Says
  <2>1. CASE e = c
    <3>1. /\ Len(outbox) \in DOMAIN outbox' /\ outbox'[Len(outbox)].camera = e /\ outbox'[Len(outbox)].what = "online"
          /\ \A j \in DOMAIN outbox' : ~ (j > Len(outbox))
      BY <2>1, <1>2, <1>4
    <3> QED BY <3>1
  <2>2. CASE \E k \in DOMAIN outbox : e # c /\ outbox[k].camera = e /\ outbox[k].what = "attach"
    <3>1. PICK k \in DOMAIN outbox : e # c /\ outbox[k].camera = e /\ outbox[k].what = "attach"
      BY <2>2
    <3>2. k # 1
      BY <3>1 DEF c
    <3> QED BY <3>1, <3>2, <1>7
  <2>3. CASE \E k \in DOMAIN outbox :
               /\ outbox[k].camera = e /\ outbox[k].what = "online"
               /\ \A j \in DOMAIN outbox : j > k => ~ (outbox[j].camera = e /\ outbox[j].what = "offline")
    <3>1. PICK k \in DOMAIN outbox :
               /\ outbox[k].camera = e /\ outbox[k].what = "online"
               /\ \A j \in DOMAIN outbox : j > k => ~ (outbox[j].camera = e /\ outbox[j].what = "offline")
      BY <2>3
    <3>2. k # 1
      BY <3>1, <1>1
    <3>3. k - 1 \in DOMAIN outbox' /\ outbox'[k - 1] = outbox[k]
      BY <3>2, <1>7
    <3>4. ASSUME NEW j \in DOMAIN outbox', j > k - 1
          PROVE  ~ (outbox'[j].camera = e /\ outbox'[j].what = "offline")
      <4>1. j + 1 > k
        BY <3>4, <1>8
      <4> QED BY <4>1, <3>1, <1>6
    <3> QED BY <3>1, <3>3, <3>4
  <2>4. CASE state[e] = "online" /\ \A j \in DOMAIN outbox : ~ (outbox[j].camera = e /\ outbox[j].what = "offline")
    BY <2>4, <1>6
  <2> QED BY <2>1, <2>2, <2>3, <2>4 DEF ThereSettles, Says
<1>11. GoneBeforeFarewell'
  <2> SUFFICES ASSUME phase = "gateway", NEW e \in Cameras, e \notin devices, e \notin overtaken,
                      NEW k \in DOMAIN outbox', outbox'[k].camera = e, outbox'[k].what \in {"online", "offline"}
               PROVE  \E g \in DOMAIN outbox' : g > k /\ FarewellOf(outbox'[g], GatewayId)
    BY <1>1 DEF GoneBeforeFarewell, Says
  <2>1. k + 1 \in DOMAIN outbox /\ outbox'[k] = outbox[k + 1]
    BY <1>5, <1>6
  <2>2. PICK g \in DOMAIN outbox : g > k + 1 /\ FarewellOf(outbox[g], GatewayId)
    BY <2>1 DEF GoneBeforeFarewell, Says
  <2>3. g # 1 /\ g - 1 > k
    BY <2>1, <2>2, <1>4, <1>8
  <2> QED BY <2>2, <2>3, <1>7
<1>12. Leaves'
  BY <1>1 DEF Leaves
<1> QED BY <1>9, <1>10, <1>11, <1>12

\* The first message is written, and nobody awaits it.
LEMMA NoticeWrittenSettles ==
  ASSUME EdgeTypeOK, ShutdownInv, PresenceInv, NoticeWritten
  PROVE  PresenceInv'
<1> USE DEF PresenceInv
<1> DEFINE m == outbox[1]
<1>1. /\ Goes(1, <<>>) /\ ~ m.awaited /\ m.what # "attach" /\ phase \in Phases
      /\ \A d \in Cameras : state'[d] = IF m.camera = d /\ m.what \in {"online", "offline"}
                                        THEN m.what ELSE state[d]
      /\ UNCHANGED <<devices, phase, leaving, overtaken>>
  BY NoticeWrittenSteps DEF Outside, EdgeTypeOK
<1>2. /\ 1 \in DOMAIN outbox /\ DOMAIN outbox' \subseteq Int /\ DOMAIN outbox \subseteq Int
      /\ \A k \in DOMAIN outbox' : k + 1 \in DOMAIN outbox /\ outbox'[k] = outbox[k + 1]
      /\ \A k \in DOMAIN outbox : k # 1 => k - 1 \in DOMAIN outbox' /\ outbox'[k - 1] = outbox[k]
      /\ \A k \in DOMAIN outbox : k >= 1
      /\ \A k \in DOMAIN outbox' : k >= 1
  BY <1>1, HeadGone DEF Goes
<1>3. devices \subseteq Cameras
  BY DEF EdgeTypeOK, TypeOK
<1>4. GoneSettles'
  <2> SUFFICES ASSUME phase \in {"up", "gateway"}, NEW e \in Cameras, e \notin devices, e \notin overtaken
               PROVE  /\ \A k \in DOMAIN outbox' : ~ (outbox'[k].camera = e /\ outbox'[k].what = "attach")
                      /\ \A k \in DOMAIN outbox' : outbox'[k].camera = e /\ outbox'[k].what = "online" =>
                           \E j \in DOMAIN outbox' : j > k /\ outbox'[j].camera = e /\ outbox'[j].what = "offline"
                      /\ state'[e] = "online" =>
                           \E j \in DOMAIN outbox' : outbox'[j].camera = e /\ outbox'[j].what = "offline"
    BY <1>1 DEF GoneSettles, Says
  <2>1. \A k \in DOMAIN outbox' : ~ (outbox'[k].camera = e /\ outbox'[k].what = "attach")
    BY <1>2 DEF GoneSettles, Says
  <2>2. \A k \in DOMAIN outbox : outbox[k].camera = e /\ outbox[k].what = "online" =>
          \E j \in DOMAIN outbox : j > k /\ outbox[j].camera = e /\ outbox[j].what = "offline"
    BY DEF GoneSettles, Says
  <2>3. ASSUME NEW k \in DOMAIN outbox', outbox'[k].camera = e, outbox'[k].what = "online"
        PROVE  \E j \in DOMAIN outbox' : j > k /\ outbox'[j].camera = e /\ outbox'[j].what = "offline"
    <3>1. PICK j \in DOMAIN outbox : j > k + 1 /\ outbox[j].camera = e /\ outbox[j].what = "offline"
      BY <2>2, <2>3, <1>2
    <3>2. j # 1 /\ j - 1 > k
      BY <3>1, <1>2
    <3> QED BY <3>1, <3>2, <1>2
  <2>4. ASSUME state'[e] = "online"
        PROVE  \E j \in DOMAIN outbox' : outbox'[j].camera = e /\ outbox'[j].what = "offline"
    <3>1. \E j \in DOMAIN outbox : j # 1 /\ outbox[j].camera = e /\ outbox[j].what = "offline"
      <4>1. CASE m.camera = e /\ m.what = "online"
        <5>1. PICK j \in DOMAIN outbox : j > 1 /\ outbox[j].camera = e /\ outbox[j].what = "offline"
          BY <4>1, <2>2, <1>2
        <5> QED BY <5>1
      <4>2. CASE ~ (m.camera = e /\ m.what \in {"online", "offline"})
        <5>1. PICK j \in DOMAIN outbox : outbox[j].camera = e /\ outbox[j].what = "offline"
          BY <4>2, <2>4, <1>1 DEF GoneSettles, Says
        <5> QED BY <5>1, <4>2
      <4> QED BY <4>1, <4>2, <2>4, <1>1
    <3> QED BY <3>1, <1>2
  <2> QED BY <2>1, <2>3, <2>4
<1>5. ThereSettles'
  <2> SUFFICES ASSUME phase = "up", NEW e \in devices, e \notin overtaken
               PROVE  \/ \E k \in DOMAIN outbox' : outbox'[k].camera = e /\ outbox'[k].what = "attach"
                      \/ \E k \in DOMAIN outbox' :
                           /\ outbox'[k].camera = e /\ outbox'[k].what = "online"
                           /\ \A j \in DOMAIN outbox' : j > k => ~ (outbox'[j].camera = e /\ outbox'[j].what = "offline")
                      \/ state'[e] = "online"
                         /\ \A j \in DOMAIN outbox' : ~ (outbox'[j].camera = e /\ outbox'[j].what = "offline")
    BY <1>1 DEF ThereSettles, Says
  <2>1. CASE \E k \in DOMAIN outbox : outbox[k].camera = e /\ outbox[k].what = "attach"
    BY <2>1, <1>1, <1>2
  <2>2. CASE \E k \in DOMAIN outbox :
               /\ outbox[k].camera = e /\ outbox[k].what = "online"
               /\ \A j \in DOMAIN outbox : j > k => ~ (outbox[j].camera = e /\ outbox[j].what = "offline")
    <3>1. PICK k \in DOMAIN outbox :
               /\ outbox[k].camera = e /\ outbox[k].what = "online"
               /\ \A j \in DOMAIN outbox : j > k => ~ (outbox[j].camera = e /\ outbox[j].what = "offline")
      BY <2>2
    <3>2. ASSUME NEW j \in DOMAIN outbox', j > k - 1
          PROVE  ~ (outbox'[j].camera = e /\ outbox'[j].what = "offline")
      <4>1. j + 1 > k
        BY <3>2, <1>2
      <4> QED BY <4>1, <3>1, <1>2
    <3>3. CASE k = 1
      <4>1. state'[e] = "online"
        BY <3>1, <3>3, <1>1, <1>3
      <4>2. \A j \in DOMAIN outbox' : j > k - 1
        BY <3>3, <1>2
      <4> QED BY <4>1, <4>2, <3>2
    <3>4. CASE k # 1
      BY <3>1, <3>2, <3>4, <1>2
    <3> QED BY <3>3, <3>4
  <2>3. CASE state[e] = "online" /\ \A j \in DOMAIN outbox : ~ (outbox[j].camera = e /\ outbox[j].what = "offline")
    <3>1. state'[e] = "online"
      BY <2>3, <1>1, <1>2, <1>3
    <3> QED BY <2>3, <3>1, <1>2
  <2> QED BY <2>1, <2>2, <2>3 DEF ThereSettles, Says
<1>6. GoneBeforeFarewell'
  <2> SUFFICES ASSUME phase = "gateway", NEW e \in Cameras, e \notin devices, e \notin overtaken,
                      NEW k \in DOMAIN outbox', outbox'[k].camera = e, outbox'[k].what \in {"online", "offline"}
               PROVE  \E g \in DOMAIN outbox' : g > k /\ FarewellOf(outbox'[g], GatewayId)
    BY <1>1 DEF GoneBeforeFarewell, Says
  <2>1. PICK g \in DOMAIN outbox : g > k + 1 /\ FarewellOf(outbox[g], GatewayId)
    BY <1>2 DEF GoneBeforeFarewell, Says
  <2>2. g # 1 /\ g - 1 > k
    BY <2>1, <1>2
  <2> QED BY <2>1, <2>2, <1>2
<1>7. Leaves'
  <2> SUFFICES ASSUME phase \in {"devices", "grace"}, NEW d \in Cameras, d \notin overtaken \ devices
               PROVE  IF d \in leaving THEN \E k \in DOMAIN outbox' : FarewellOf(outbox'[k], d)
                      ELSE state'[d] # "online"
                           /\ \A k \in DOMAIN outbox' : ~ (outbox'[k].camera = d /\ outbox'[k].what = "online")
    BY <1>1 DEF Leaves, Says
  <2>1. CASE d \in leaving
    <3>1. PICK k \in DOMAIN outbox : FarewellOf(outbox[k], d)
      BY <2>1 DEF Leaves
    <3>2. k # 1
      BY <3>1, <1>1 DEF FarewellOf, Farewell
    <3> QED BY <2>1, <3>1, <3>2, <1>2
  <2>2. CASE d \notin leaving
    BY <2>2, <1>1, <1>2 DEF Leaves, Says
  <2> QED BY <2>1, <2>2
<1> QED BY <1>4, <1>5, <1>6, <1>7

\* The first message is rejected: its camera counts as overtaken from then on.
LEMMA NoticeRejectedSettles ==
  ASSUME EdgeTypeOK, ShutdownInv, PresenceInv, NoticeRejected
  PROVE  PresenceInv'
<1> USE DEF PresenceInv
<1> DEFINE c == outbox[1].camera
<1>1. outbox[1].what = "attach" \/ ~ outbox[1].awaited
  BY NoticeRejectedSteps DEF Outside
<1>2. /\ Goes(1, <<>>)
      /\ UNCHANGED <<state, devices, phase, leaving>> /\ overtaken' = overtaken \cup ({c} \cap Cameras)
  BY NoticeRejectedSteps DEF Outside
<1>3. /\ 1 \in DOMAIN outbox /\ DOMAIN outbox' \subseteq Int /\ DOMAIN outbox \subseteq Int
      /\ \A k \in DOMAIN outbox' : k + 1 \in DOMAIN outbox /\ outbox'[k] = outbox[k + 1]
      /\ \A k \in DOMAIN outbox : k # 1 => k - 1 \in DOMAIN outbox' /\ outbox'[k - 1] = outbox[k]
      /\ \A k \in DOMAIN outbox : k >= 1
  BY <1>2, HeadGone DEF Goes
\* The messages of the others are not the first.
<1>4. ASSUME NEW e \in Cameras, e \notin overtaken'
      PROVE  e \notin overtaken /\ \A k \in DOMAIN outbox : outbox[k].camera = e => k # 1
  BY <1>2, <1>4
<1> HIDE DEF c
<1>5. GoneSettles'
  <2> SUFFICES ASSUME phase \in {"up", "gateway"}, NEW e \in Cameras, e \notin devices, e \notin overtaken'
               PROVE  /\ \A k \in DOMAIN outbox' : ~ (outbox'[k].camera = e /\ outbox'[k].what = "attach")
                      /\ \A k \in DOMAIN outbox' : outbox'[k].camera = e /\ outbox'[k].what = "online" =>
                           \E j \in DOMAIN outbox' : j > k /\ outbox'[j].camera = e /\ outbox'[j].what = "offline"
                      /\ state[e] = "online" =>
                           \E j \in DOMAIN outbox' : outbox'[j].camera = e /\ outbox'[j].what = "offline"
    BY <1>2 DEF GoneSettles, Says
  <2>1. \A k \in DOMAIN outbox' : ~ (outbox'[k].camera = e /\ outbox'[k].what = "attach")
    BY <1>3, <1>4 DEF GoneSettles, Says
  <2>2. ASSUME NEW k \in DOMAIN outbox', outbox'[k].camera = e, outbox'[k].what = "online"
        PROVE  \E j \in DOMAIN outbox' : j > k /\ outbox'[j].camera = e /\ outbox'[j].what = "offline"
    <3>1. PICK j \in DOMAIN outbox : j > k + 1 /\ outbox[j].camera = e /\ outbox[j].what = "offline"
      BY <2>2, <1>3, <1>4 DEF GoneSettles, Says
    <3>2. j # 1 /\ j - 1 > k
      BY <3>1, <1>3
    <3> QED BY <3>1, <3>2, <1>3
  <2>3. state[e] = "online" => \E j \in DOMAIN outbox' : outbox'[j].camera = e /\ outbox'[j].what = "offline"
    BY <1>3, <1>4 DEF GoneSettles, Says
  <2> QED BY <2>1, <2>2, <2>3
<1>6. ThereSettles'
  <2> SUFFICES ASSUME phase = "up", NEW e \in devices, e \notin overtaken'
               PROVE  \/ \E k \in DOMAIN outbox' : outbox'[k].camera = e /\ outbox'[k].what = "attach"
                      \/ \E k \in DOMAIN outbox' :
                           /\ outbox'[k].camera = e /\ outbox'[k].what = "online"
                           /\ \A j \in DOMAIN outbox' : j > k => ~ (outbox'[j].camera = e /\ outbox'[j].what = "offline")
                      \/ state[e] = "online"
                         /\ \A j \in DOMAIN outbox' : ~ (outbox'[j].camera = e /\ outbox'[j].what = "offline")
    BY <1>2 DEF ThereSettles, Says
  <2>1. e \in Cameras /\ e \notin overtaken /\ \A k \in DOMAIN outbox : outbox[k].camera = e => k # 1
    BY <1>4 DEF EdgeTypeOK, TypeOK
  <2>2. CASE \E k \in DOMAIN outbox : outbox[k].camera = e /\ outbox[k].what = "attach"
    BY <2>1, <2>2, <1>3
  <2>3. CASE \E k \in DOMAIN outbox :
               /\ outbox[k].camera = e /\ outbox[k].what = "online"
               /\ \A j \in DOMAIN outbox : j > k => ~ (outbox[j].camera = e /\ outbox[j].what = "offline")
    <3>1. PICK k \in DOMAIN outbox :
               /\ outbox[k].camera = e /\ outbox[k].what = "online"
               /\ \A j \in DOMAIN outbox : j > k => ~ (outbox[j].camera = e /\ outbox[j].what = "offline")
      BY <2>3
    <3>2. ASSUME NEW j \in DOMAIN outbox', j > k - 1
          PROVE  ~ (outbox'[j].camera = e /\ outbox'[j].what = "offline")
      <4>1. j + 1 > k
        BY <3>2, <1>3
      <4> QED BY <4>1, <3>1, <1>3
    <3> QED BY <3>1, <3>2, <2>1, <1>3
  <2>4. CASE state[e] = "online" /\ \A j \in DOMAIN outbox : ~ (outbox[j].camera = e /\ outbox[j].what = "offline")
    BY <2>4, <1>3
  <2> QED BY <2>1, <2>2, <2>3, <2>4 DEF ThereSettles, Says
<1>7. GoneBeforeFarewell'
  <2> SUFFICES ASSUME phase = "gateway", NEW e \in Cameras, e \notin devices, e \notin overtaken',
                      NEW k \in DOMAIN outbox', outbox'[k].camera = e, outbox'[k].what \in {"online", "offline"}
               PROVE  \E g \in DOMAIN outbox' : g > k /\ FarewellOf(outbox'[g], GatewayId)
    BY <1>2 DEF GoneBeforeFarewell, Says
  <2>1. PICK g \in DOMAIN outbox : g > k + 1 /\ FarewellOf(outbox[g], GatewayId)
    BY <1>3, <1>4 DEF GoneBeforeFarewell, Says
  <2>2. g # 1 /\ g - 1 > k
    BY <2>1, <1>3
  <2> QED BY <2>1, <2>2, <1>3
<1>8. Leaves'
  <2> SUFFICES ASSUME phase \in {"devices", "grace"}, NEW d \in Cameras, d \notin overtaken \ devices
               PROVE  IF d \in leaving THEN \E k \in DOMAIN outbox' : FarewellOf(outbox'[k], d)
                      ELSE state[d] # "online"
                           /\ \A k \in DOMAIN outbox' : ~ (outbox'[k].camera = d /\ outbox'[k].what = "online")
    BY <1>2 DEF Leaves, Says
  <2>1. CASE d \in leaving
    <3>1. PICK k \in DOMAIN outbox : FarewellOf(outbox[k], d)
      BY <2>1 DEF Leaves
    <3>2. k # 1
      BY <3>1, <1>1 DEF FarewellOf, Farewell
    <3> QED BY <2>1, <3>1, <3>2, <1>3
  <2>2. CASE d \notin leaving
    BY <2>2, <1>3 DEF Leaves, Says
  <2> QED BY <2>1, <2>2
<1> QED BY <1>5, <1>6, <1>7, <1>8

\* A signal: what is pending for the cameras that are gone is before the
\* gateway's farewell.
LEMMA SignalSettles ==
  ASSUME EdgeTypeOK, ShutdownInv, PresenceInv, Signal
  PROVE  PresenceInv'
<1> USE DEF PresenceInv
<1>1. UNCHANGED <<state, devices, overtaken>>
  BY DEF Signal
<1>2. CASE phase' = "over"
  BY <1>2 DEF GoneSettles, ThereSettles, GoneBeforeFarewell, Leaves
<1>3. CASE /\ Outside(0, <<Notice(GatewayId, "offline", TRUE)>>)
           /\ phase = "up" /\ phase' = "gateway" /\ leaving' = devices
  <2> DEFINE s == <<Notice(GatewayId, "offline", TRUE)>>
  <2>1. /\ Len(s) = 1 /\ 1 \in 1 .. Len(s) /\ FarewellOf(s[1], GatewayId)
        /\ \A k \in 1 .. Len(s) : s[k].camera = GatewayId
    BY DEF FarewellOf, Farewell, Notice
  <2>2. Goes(0, s)
    BY <1>3 DEF Outside
  <2> HIDE DEF s
  <2>3. /\ \A k \in DOMAIN outbox : k \in DOMAIN outbox' /\ outbox'[k] = outbox[k]
        /\ \A k \in DOMAIN outbox' : k \notin DOMAIN outbox => outbox'[k].camera = GatewayId
    <3>1. /\ \A k \in DOMAIN outbox : k \in DOMAIN outbox' /\ outbox'[k] = outbox[k]
          /\ \A k \in DOMAIN outbox' : k \notin DOMAIN outbox => \E i \in 1 .. Len(s) : outbox'[k] = s[i]
      BY <2>2, Longer
    <3> QED BY <2>1, <3>1
  <2>4. \E g \in DOMAIN outbox' : FarewellOf(outbox'[g], GatewayId) /\ \A k \in DOMAIN outbox : g > k
    <3>1. /\ Len(outbox) + 1 \in DOMAIN outbox' /\ outbox'[Len(outbox) + 1] = s[1]
          /\ \A k \in DOMAIN outbox : Len(outbox) + 1 > k
      BY <2>1, <2>2, Longer
    <3> QED BY <2>1, <3>1
  <2>5. GoneSettles'
    BY <1>1, <1>3, <2>3, GatewayAssumption DEF GoneSettles, Says
  <2>6. GoneBeforeFarewell'
    BY <1>1, <1>3, <2>3, <2>4, GatewayAssumption DEF GoneBeforeFarewell, Says, FarewellOf, Farewell
  <2>7. ThereSettles' /\ Leaves'
    BY <1>3 DEF ThereSettles, Leaves
  <2> QED BY <2>5, <2>6, <2>7
<1> QED BY <1>2, <1>3, SignalSteps DEF ShutdownInv

\* The gateway's farewell is written: each camera that is there gets one, and
\* nothing is pending of the others.
LEMMA GatewayLeftSettles ==
  ASSUME EdgeTypeOK, EdgeTypeOK', ShutdownInv, PresenceInv, GatewayLeft
  PROVE  PresenceInv'
<1> USE DEF PresenceInv
<1> DEFINE s == Farewells(leaving)
<1>1. /\ Goes(1, s) /\ 1 \in DOMAIN outbox
      /\ state' = [state EXCEPT ![GatewayId] = "offline"]
      /\ \A k \in DOMAIN outbox : k # 1 => ~ FarewellOf(outbox[k], GatewayId)
  BY GatewayLeftSteps, GatewayLeftShuts DEF Outside, ShutdownInv
<1>2. /\ phase = "gateway" /\ UNCHANGED <<devices, leaving, overtaken>>
      /\ phase' \in {"grace", "devices"} /\ leaving = devices /\ leaving \subseteq Cameras
  BY DEF GatewayLeft, ShutdownInv, PhaseInv, EdgeTypeOK
<1>3. /\ \A k \in 1 .. Len(s) : \E d \in leaving : s[k] = Notice(d, "offline", TRUE)
      /\ \A d \in leaving : \E k \in 1 .. Len(s) : s[k] = Notice(d, "offline", TRUE)
  <2>1. leaving \in SUBSET Cameras
    BY <1>2
  <2>2. \A k \in 1 .. Len(s) : \E d \in leaving : s[k] = Notice(d, "offline", TRUE)
    BY <2>1, FarewellsAreOnce
  <2>3. \A d \in leaving : \E k \in 1 .. Len(s) : s[k] = Notice(d, "offline", TRUE)
    BY <2>1, FarewellsAreOnce, Zenon
  <2> QED BY <2>2, <2>3
<1>4. \A d \in leaving : FarewellOf(Notice(d, "offline", TRUE), d)
  BY DEF FarewellOf, Farewell, Notice
<1>5. /\ Len(outbox) \in Nat /\ Len(s) \in Nat /\ DOMAIN outbox = 1 .. Len(outbox)
      /\ DOMAIN outbox' = 1 .. Len(outbox) - 1 + Len(s) /\ Len(outbox) >= 1
      /\ \A k \in 1 .. Len(outbox) - 1 : outbox'[k] = outbox[k + 1]
      /\ \A k \in 1 .. Len(s) : outbox'[Len(outbox) - 1 + k] = s[k]
  BY <1>1 DEF Goes
<1> HIDE DEF s
<1>6. GoneSettles' /\ ThereSettles' /\ GoneBeforeFarewell'
  BY <1>2 DEF GoneSettles, ThereSettles, GoneBeforeFarewell
<1>7. ASSUME NEW d \in Cameras, d \notin devices, d \notin overtaken, NEW k \in DOMAIN outbox
      PROVE  ~ (outbox[k].camera = d /\ outbox[k].what \in {"online", "offline"})
  <2> SUFFICES ASSUME outbox[k].camera = d, outbox[k].what \in {"online", "offline"} PROVE FALSE
    OBVIOUS
  <2>1. PICK g \in DOMAIN outbox : g > k /\ FarewellOf(outbox[g], GatewayId)
    BY <1>2, <1>7 DEF GoneBeforeFarewell, Says
  <2>2. g # 1
    BY <2>1, <1>5
  <2> QED BY <2>1, <2>2, <1>1
<1>8. Leaves'
  <2> SUFFICES ASSUME NEW d \in Cameras, d \notin overtaken \ devices
               PROVE  IF d \in leaving THEN \E k \in DOMAIN outbox' : FarewellOf(outbox'[k], d)
                      ELSE state'[d] # "online"
                           /\ \A k \in DOMAIN outbox' : ~ (outbox'[k].camera = d /\ outbox'[k].what = "online")
    BY <1>2 DEF Leaves, Says
  <2>1. CASE d \in leaving
    <3>1. PICK k \in 1 .. Len(s) : s[k] = Notice(d, "offline", TRUE)
      BY <2>1, <1>3
    <3>2. Len(outbox) - 1 + k \in DOMAIN outbox' /\ outbox'[Len(outbox) - 1 + k] = s[k]
      BY <1>5
    <3> QED BY <2>1, <3>1, <3>2, <1>4
  <2>2. CASE d \notin leaving
    <3>1. d \notin devices /\ d \notin overtaken
      BY <2>2, <1>2
    <3>2. state[d] # "online"
      BY <3>1, <1>2, <1>7 DEF GoneSettles, Says
    <3>3. state'[d] = state[d]
      BY <1>1, GatewayAssumption DEF EdgeTypeOK, TypeOK, GatewayTypeOK
    <3>4. ASSUME NEW k \in DOMAIN outbox' PROVE ~ (outbox'[k].camera = d /\ outbox'[k].what = "online")
      <4>1. CASE k <= Len(outbox) - 1
        <5>1. k + 1 \in DOMAIN outbox /\ outbox'[k] = outbox[k + 1]
          BY <4>1, <1>5
        <5> QED BY <5>1, <3>1, <1>7
      <4>2. CASE k > Len(outbox) - 1
        <5>1. k - (Len(outbox) - 1) \in 1 .. Len(s) /\ Len(outbox) - 1 + (k - (Len(outbox) - 1)) = k
          BY <4>2, <1>5
        <5>2. outbox'[k] = s[k - (Len(outbox) - 1)]
          BY <5>1, <1>5
        <5>3. \E e \in leaving : s[k - (Len(outbox) - 1)] = Notice(e, "offline", TRUE)
          BY <5>1, <1>3
        <5> QED BY <5>2, <5>3 DEF Notice
      <4> QED BY <4>1, <4>2, <1>5
    <3> QED BY <2>2, <3>2, <3>3, <3>4
  <2> QED BY <2>1, <2>2
<1> QED BY <1>6, <1>8

\* A camera's farewell is written: nothing after it shows it online.
LEMMA CameraLeftSettles ==
  ASSUME EdgeTypeOK, ShutdownInv, PresenceInv, CameraLeft
  PROVE  PresenceInv'
<1> USE DEF PresenceInv
<1> DEFINE c == outbox[1].camera
<1>1. /\ Goes(1, <<>>) /\ phase = "devices" /\ c \in Cameras /\ FarewellOf(outbox[1], c)
      /\ \A d \in Cameras : state'[d] = IF c = d THEN "offline" ELSE state[d]
      /\ leaving' = leaving \ {c} /\ phase' \in {"devices", "grace"}
      /\ UNCHANGED <<devices, overtaken>>
  BY CameraLeftSteps DEF Outside
<1>2. /\ 1 \in DOMAIN outbox
      /\ \A k \in DOMAIN outbox' : k + 1 \in DOMAIN outbox /\ outbox'[k] = outbox[k + 1]
      /\ \A k \in DOMAIN outbox : k # 1 => k - 1 \in DOMAIN outbox' /\ outbox'[k - 1] = outbox[k]
      /\ \A k \in DOMAIN outbox' : k + 1 \in 2 .. Len(outbox)
  BY <1>1, HeadGone DEF Goes
<1>3. GoneSettles' /\ ThereSettles' /\ GoneBeforeFarewell'
  BY <1>1 DEF GoneSettles, ThereSettles, GoneBeforeFarewell
<1>4. \A j \in 1 + 1 .. Len(outbox) : outbox[j].what \in {"offline", "telemetry"}
  BY <1>1, <1>2 DEF ShutdownInv, FarewellOrder, FarewellOf, Farewell
<1>5. Leaves'
  <2> SUFFICES ASSUME NEW d \in Cameras, d \notin overtaken \ devices
               PROVE  IF d \in leaving' THEN \E k \in DOMAIN outbox' : FarewellOf(outbox'[k], d)
                      ELSE state'[d] # "online"
                           /\ \A k \in DOMAIN outbox' : ~ (outbox'[k].camera = d /\ outbox'[k].what = "online")
    BY <1>1 DEF Leaves, Says
  <2>1. CASE d \in leaving'
    <3>1. PICK k \in DOMAIN outbox : FarewellOf(outbox[k], d)
      BY <2>1, <1>1 DEF Leaves
    <3>2. k # 1
      BY <2>1, <3>1, <1>1 DEF FarewellOf
    <3> QED BY <2>1, <3>1, <3>2, <1>2
  <2>2. CASE d \notin leaving'
    <3>1. \A k \in DOMAIN outbox' : ~ (outbox'[k].camera = d /\ outbox'[k].what = "online")
      BY <1>2, <1>4
    <3>2. state'[d] # "online"
      BY <2>2, <1>1 DEF Leaves
    <3> QED BY <2>2, <3>1, <3>2
  <2> QED BY <2>1, <2>2
<1> QED BY <1>3, <1>5

\* The loop leaves the messages of the others alone.
LEMMA LoopSettles ==
  ASSUME Outages = FALSE, EdgeTypeOK, PresenceInv, Loop \/ Refill \/ RefreshToken, UNCHANGED server
  PROVE  PresenceInv'
<1> USE DEF PresenceInv
<1>1. UNCHANGED <<devices, state, phase, leaving, overtaken>>
  BY LoopNotices DEF server
<1>2. PICK h \in {0, 1} : OnlyReports(h)
  BY LoopNotices
<1>3. /\ h \in Nat /\ DOMAIN outbox \subseteq Nat /\ DOMAIN outbox' \subseteq Nat
  BY <1>2 DEF OnlyReports
<1>4. ASSUME NEW k \in DOMAIN outbox', outbox'[k].what # "telemetry"
      PROVE  /\ k + h \in DOMAIN outbox /\ outbox'[k].camera = outbox[k + h].camera
             /\ outbox'[k].what = outbox[k + h].what /\ outbox'[k].awaited = outbox[k + h].awaited
  BY <1>2, <1>4 DEF OnlyReports
<1>5. ASSUME NEW k \in DOMAIN outbox, outbox[k].what # "telemetry"
      PROVE  /\ k - h \in DOMAIN outbox' /\ outbox'[k - h].camera = outbox[k].camera
             /\ outbox'[k - h].what = outbox[k].what /\ outbox'[k - h].awaited = outbox[k].awaited
  <2>1. k - h \in DOMAIN outbox' /\ k - h + h = k
    BY <1>2, <1>3, <1>5 DEF OnlyReports
  <2> QED BY <1>2, <2>1, <1>3, <1>5 DEF OnlyReports
<1>6. GoneSettles'
  <2> SUFFICES ASSUME phase \in {"up", "gateway"}, NEW e \in Cameras, e \notin devices, e \notin overtaken
               PROVE  /\ \A k \in DOMAIN outbox' : ~ (outbox'[k].camera = e /\ outbox'[k].what = "attach")
                      /\ \A k \in DOMAIN outbox' : outbox'[k].camera = e /\ outbox'[k].what = "online" =>
                           \E j \in DOMAIN outbox' : j > k /\ outbox'[j].camera = e /\ outbox'[j].what = "offline"
                      /\ state[e] = "online" =>
                           \E j \in DOMAIN outbox' : outbox'[j].camera = e /\ outbox'[j].what = "offline"
    BY <1>1 DEF GoneSettles, Says
  <2>1. \A k \in DOMAIN outbox' : ~ (outbox'[k].camera = e /\ outbox'[k].what = "attach")
    BY <1>4 DEF GoneSettles, Says
  <2>2. ASSUME NEW k \in DOMAIN outbox', outbox'[k].camera = e, outbox'[k].what = "online"
        PROVE  \E j \in DOMAIN outbox' : j > k /\ outbox'[j].camera = e /\ outbox'[j].what = "offline"
    <3>1. PICK j \in DOMAIN outbox : j > k + h /\ outbox[j].camera = e /\ outbox[j].what = "offline"
      BY <2>2, <1>4 DEF GoneSettles, Says
    <3>2. j - h > k
      BY <3>1, <1>3
    <3> QED BY <3>1, <3>2, <1>5
  <2>3. state[e] = "online" => \E j \in DOMAIN outbox' : outbox'[j].camera = e /\ outbox'[j].what = "offline"
    BY <1>5 DEF GoneSettles, Says
  <2> QED BY <2>1, <2>2, <2>3
<1>7. ThereSettles'
  <2> SUFFICES ASSUME phase = "up", NEW e \in devices, e \notin overtaken
               PROVE  \/ \E k \in DOMAIN outbox' : outbox'[k].camera = e /\ outbox'[k].what = "attach"
                      \/ \E k \in DOMAIN outbox' :
                           /\ outbox'[k].camera = e /\ outbox'[k].what = "online"
                           /\ \A j \in DOMAIN outbox' : j > k => ~ (outbox'[j].camera = e /\ outbox'[j].what = "offline")
                      \/ state[e] = "online"
                         /\ \A j \in DOMAIN outbox' : ~ (outbox'[j].camera = e /\ outbox'[j].what = "offline")
    BY <1>1 DEF ThereSettles, Says
  <2>1. CASE \E k \in DOMAIN outbox : outbox[k].camera = e /\ outbox[k].what = "attach"
    BY <2>1, <1>5
  <2>2. CASE \E k \in DOMAIN outbox :
               /\ outbox[k].camera = e /\ outbox[k].what = "online"
               /\ \A j \in DOMAIN outbox : j > k => ~ (outbox[j].camera = e /\ outbox[j].what = "offline")
    <3>1. PICK k \in DOMAIN outbox :
               /\ outbox[k].camera = e /\ outbox[k].what = "online"
               /\ \A j \in DOMAIN outbox : j > k => ~ (outbox[j].camera = e /\ outbox[j].what = "offline")
      BY <2>2
    <3>2. ASSUME NEW j \in DOMAIN outbox', j > k - h
          PROVE  ~ (outbox'[j].camera = e /\ outbox'[j].what = "offline")
      <4>1. j + h > k
        BY <3>2, <1>3
      <4> QED BY <4>1, <3>1, <1>4
    <3> QED BY <3>1, <3>2, <1>5
  <2>3. CASE state[e] = "online" /\ \A j \in DOMAIN outbox : ~ (outbox[j].camera = e /\ outbox[j].what = "offline")
    BY <2>3, <1>4
  <2> QED BY <2>1, <2>2, <2>3 DEF ThereSettles, Says
<1>8. GoneBeforeFarewell'
  <2> SUFFICES ASSUME phase = "gateway", NEW e \in Cameras, e \notin devices, e \notin overtaken,
                      NEW k \in DOMAIN outbox', outbox'[k].camera = e, outbox'[k].what \in {"online", "offline"}
               PROVE  \E g \in DOMAIN outbox' : g > k /\ FarewellOf(outbox'[g], GatewayId)
    BY <1>1 DEF GoneBeforeFarewell, Says
  <2>1. PICK g \in DOMAIN outbox : g > k + h /\ FarewellOf(outbox[g], GatewayId)
    BY <1>4 DEF GoneBeforeFarewell, Says
  <2>2. g - h > k
    BY <2>1, <1>3
  <2> QED BY <2>1, <2>2, <1>5 DEF FarewellOf, Farewell
<1>9. Leaves'
  <2> SUFFICES ASSUME phase \in {"devices", "grace"}, NEW d \in Cameras, d \notin overtaken \ devices
               PROVE  IF d \in leaving THEN \E k \in DOMAIN outbox' : FarewellOf(outbox'[k], d)
                      ELSE state[d] # "online"
                           /\ \A k \in DOMAIN outbox' : ~ (outbox'[k].camera = d /\ outbox'[k].what = "online")
    BY <1>1 DEF Leaves, Says
  <2>1. CASE d \in leaving
    BY <2>1, <1>5 DEF Leaves, FarewellOf, Farewell
  <2>2. CASE d \notin leaving
    BY <2>2, <1>4 DEF Leaves, Says
  <2> QED BY <2>1, <2>2
<1> QED BY <1>6, <1>7, <1>8, <1>9

LEMMA PresenceInit == EdgeInit => PresenceInv
BY DEF EdgeInit, PresenceInv, GoneSettles, ThereSettles, GoneBeforeFarewell, Leaves

LEMMA PresenceStep ==
  ASSUME Outages = FALSE
  PROVE  EdgeInv /\ PresenceInv /\ [EdgeNext]_all => PresenceInv'
<1> SUFFICES ASSUME EdgeInv, PresenceInv, [EdgeNext]_all PROVE PresenceInv'
  OBVIOUS
<1>1. EdgeTypeOK /\ ShutdownInv /\ EdgeTypeOK'
  BY EdgeStepInv DEF EdgeInv
<1>2. CASE Start
  BY <1>1, <1>2, StartSettles
<1>3. CASE CamerasChange
  BY <1>1, <1>3, CameraUpSettles, CameraDownSettles DEF CamerasChange
<1>4. CASE Notices
  BY <1>1, <1>4, AttachedSettles, NoticeWrittenSettles, NoticeRejectedSettles DEF Notices
<1>5. CASE Signal \/ GatewayLeft \/ CameraLeft
  BY <1>1, <1>5, SignalSettles, GatewayLeftSettles, CameraLeftSettles
<1>6. CASE StopReturns
  BY <1>6 DEF StopReturns, PresenceInv, GoneSettles, ThereSettles, GoneBeforeFarewell, Leaves
<1>7. CASE ForcedExit \/ UNCHANGED all
  <2>1. UNCHANGED <<outbox, state, devices, phase, leaving, overtaken>>
    BY <1>7 DEF ForcedExit, all, vars, gateway, server
  <2>2. GoneSettles' /\ ThereSettles'
    BY <2>1 DEF PresenceInv, GoneSettles, ThereSettles, Says
  <2>3. GoneBeforeFarewell' /\ Leaves'
    BY <2>1 DEF PresenceInv, GoneBeforeFarewell, Leaves, Says
  <2> QED BY <2>2, <2>3 DEF PresenceInv
<1>8. CASE Serving /\ (Loop \/ Refill \/ RefreshToken) /\ UNCHANGED server
  BY <1>1, <1>8, LoopSettles
<1> QED BY <1>2, <1>3, <1>4, <1>5, <1>6, <1>7, <1>8 DEF EdgeNext, Shutdown

\* Unless an outage drops messages: once nothing of a camera is pending, the
\* cloud shows it online exactly if it is there, except one that was overtaken.
THEOREM PresenceAgrees ==
  ASSUME Outages = FALSE
  PROVE  EdgeSpec => []PresenceSettled
<1>1. PresenceInv => PresenceSettled
  <2> SUFFICES ASSUME PresenceInv, phase = "up", NEW d \in Cameras, d \notin overtaken,
                      ~ Pending(d, {"attach", "detach", "online", "offline"})
               PROVE  state[d] = "online" <=> d \in devices
    BY DEF PresenceSettled
  <2>1. \A k \in DOMAIN outbox, what \in {"attach", "online", "offline"} : ~ Says(k, d, what)
    BY DEF Pending, Says
  <2>2. CASE d \in devices
    BY <2>1, <2>2 DEF PresenceInv, ThereSettles
  <2>3. CASE d \notin devices
    BY <2>1, <2>3 DEF PresenceInv, GoneSettles
  <2> QED BY <2>2, <2>3
<1> QED BY <1>1, EdgeInitInv, EdgeStepInv, PresenceInit, PresenceStep, PTL DEF EdgeSpec

\* Unless an outage drops messages: when stop has sent all offline events, the
\* cloud shows no camera online, except one that was overtaken.
THEOREM AllOfflineAtExit ==
  ASSUME Outages = FALSE
  PROVE  EdgeSpec => []OfflineAtExit
<1>1. EdgeInv /\ PresenceInv => OfflineAtExit
  <2> SUFFICES ASSUME EdgeInv, PresenceInv, phase = "grace", NEW d \in Cameras \ overtaken
               PROVE  state[d] # "online"
    BY DEF OfflineAtExit, AllOffline
  <2>1. leaving = {}
    BY DEF EdgeInv, ShutdownInv, PhaseInv
  <2> QED BY <2>1 DEF PresenceInv, Leaves
<1> QED BY <1>1, EdgeInitInv, EdgeStepInv, PresenceInit, PresenceStep, PTL DEF EdgeSpec
=============================================================================
