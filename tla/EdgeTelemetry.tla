--------------------------- MODULE EdgeTelemetry ----------------------------
(***************************************************************************)
(* The loop of the edge server (EdgeServer.run): fetch a picture from each *)
(* camera, classify it, queue the findings, and report the queue when it   *)
(* has changed and the rate limiter allows.                                *)
(*                                                                         *)
(* Node runs one callback at a time, so an action is what happens between  *)
(* two returns to the event loop: a run stops at its awaits (looking for   *)
(* the cameras' pictures, sending for the publishes) and no other place.   *)
(***************************************************************************)
EXTENDS Gateway, SequencesExt

CONSTANT Burst  \* what the rate limiter lets through at once

ASSUME TelemetryAssumption == Burst \in Nat \ {0} /\ IsFiniteSet(Cameras)

VARIABLES
  devices,        \* deviceListener.devices
  deviceQueue,    \* the entry of each camera (NoData: it has none)
  lastDeviceData, \* the entries last handed to the gateway
  loop,           \* where run is; "ended": it does not start again
  looking,        \* cameras whose picture this run still awaits
  awaited,        \* cameras whose telemetry this run still awaits
  tokens,         \* what the rate limiter has left
  stopped

queue == <<deviceQueue, lastDeviceData>>
run   == <<queue, loop, looking, awaited>>
vars  == <<gateway, run, devices, tokens, stopped>>

Init ==
  /\ GatewayInit
  /\ devices = {}
  /\ deviceQueue = [d \in Cameras |-> NoData]
  /\ lastDeviceData = [d \in Cameras |-> NoData]
  /\ loop = "waiting"
  /\ looking = {} /\ awaited = {}
  /\ tokens = Burst
  /\ stopped = FALSE

Queued(q) == {d \in Cameras : q[d] # NoData}

HasChanges(q) ==
  \/ Cardinality(Queued(q)) # Cardinality(Queued(lastDeviceData))
  \/ \E d \in Queued(q) : q[d] # lastDeviceData[d]

\* The end of a run: setTimeout, unless the server has been stopped.
Again == IF stopped THEN "ended" ELSE "waiting"

Telemetry(q) ==
  LET cameras == SetToSeq(Queued(q))
  IN  [k \in DOMAIN cameras |-> Event(cameras[k], q[cameras[k]])]

\* Mutants: the queue is cleared when it is sent, not when it is out; a queue
\* that is throttled counts as sent; nobody asks the limiter.
ConcludeClears(q) ==
  IF HasChanges(q) /\ tokens > 0
  THEN /\ tokens' = tokens - 1
       /\ deviceQueue' = [d \in Cameras |-> NoData]
       /\ lastDeviceData' = [d \in Cameras |-> NoData]
       /\ outbox' = outbox \o Telemetry(q)
       /\ awaited' = Queued(q)
       /\ loop' = "sending"
  ELSE /\ loop' = Again
       /\ deviceQueue' = q
       /\ UNCHANGED <<tokens, lastDeviceData, outbox, awaited>>

ConcludeThrottledForgets(q) ==
  IF HasChanges(q) /\ tokens > 0
  THEN /\ tokens' = tokens - 1
       /\ deviceQueue' = q
       /\ lastDeviceData' = [d \in Cameras |-> IF q[d] # NoData THEN q[d] ELSE lastDeviceData[d]]
       /\ outbox' = outbox \o Telemetry(q)
       /\ awaited' = Queued(q)
       /\ loop' = "sending"
  ELSE /\ loop' = Again
       /\ deviceQueue' = q
       /\ lastDeviceData' = q
       /\ UNCHANGED <<tokens, outbox, awaited>>

ConcludeUnlimited(q) ==
  IF HasChanges(q)
  THEN /\ tokens' = tokens - 1
       /\ deviceQueue' = q
       /\ lastDeviceData' = [d \in Cameras |-> IF q[d] # NoData THEN q[d] ELSE lastDeviceData[d]]
       /\ outbox' = outbox \o Telemetry(q)
       /\ awaited' = Queued(q)
       /\ loop' = "sending"
  ELSE /\ loop' = Again
       /\ deviceQueue' = q
       /\ UNCHANGED <<tokens, lastDeviceData, outbox, awaited>>

\* What run does once it has looked at every camera; q is the queue by then.
Conclude(q) ==
  IF HasChanges(q) /\ tokens > 0
  THEN /\ tokens' = tokens - 1
       /\ deviceQueue' = q
       /\ lastDeviceData' = [d \in Cameras |-> IF q[d] # NoData THEN q[d] ELSE lastDeviceData[d]]
       /\ outbox' = outbox \o Telemetry(q)
       /\ awaited' = Queued(q)
       /\ loop' = "sending"
  ELSE /\ loop' = Again
       /\ deviceQueue' = q
       /\ UNCHANGED <<tokens, lastDeviceData, outbox, awaited>>

\* The timer of the next run; it is not cancelled by stop.
Run ==
  /\ loop = "waiting"
  /\ looking' = devices
  /\ IF devices = {} THEN Conclude(deviceQueue)
     ELSE loop' = "looking" /\ UNCHANGED <<queue, tokens, outbox, awaited>>
  /\ UNCHANGED <<devices, data, state, stopped>>

\* Camera d is done; q is the queue with its findings.
Looked(d, q) ==
  /\ loop = "looking" /\ d \in looking
  /\ looking' = looking \ {d}
  /\ IF looking = {d} THEN Conclude(q)
     ELSE deviceQueue' = q /\ UNCHANGED <<lastDeviceData, loop, tokens, outbox, awaited>>
  /\ UNCHANGED <<devices, data, state, stopped>>

Classified(d, counts) ==
  LET old == IF deviceQueue[d] = NoData THEN NoCounts ELSE deviceQueue[d]
  IN  Looked(d, [deviceQueue EXCEPT ![d] = MergeCounts(old, counts)])

\* No picture within 5 seconds, or an error on the way.
FetchFailed(d) == Looked(d, deviceQueue)

\* A telemetry has been written; the last one a run awaits clears the queue.
\* Mutant: any of them does.
TelemetryWrittenAny ==
  /\ outbox # <<>> /\ Head(outbox).what = "telemetry"
  /\ Written(Tail(outbox))
  /\ IF Head(outbox).awaited
     THEN /\ awaited' = {}
          /\ deviceQueue' = [d \in Cameras |-> NoData]
          /\ lastDeviceData' = [d \in Cameras |-> NoData]
          /\ loop' = Again
     ELSE UNCHANGED <<queue, loop, awaited>>
  /\ UNCHANGED <<devices, looking, tokens, stopped>>

TelemetryWritten ==
  /\ outbox # <<>> /\ Head(outbox).what = "telemetry"
  /\ Written(Tail(outbox))
  /\ LET left == awaited \ {Head(outbox).camera}
     IN  IF ~ Head(outbox).awaited THEN UNCHANGED <<queue, loop, awaited>>
         ELSE IF left # {} THEN awaited' = left /\ UNCHANGED <<queue, loop>>
         ELSE /\ awaited' = {}
              /\ deviceQueue' = [d \in Cameras |-> NoData]
              /\ lastDeviceData' = [d \in Cameras |-> NoData]
              /\ loop' = Again
  /\ UNCHANGED <<devices, looking, tokens, stopped>>

\* Mutant: the queue is cleared even so (clearQueue in a finally).
TelemetryRejectedClears ==
  /\ outbox # <<>> /\ Head(outbox).what = "telemetry"
  /\ Rejected(Tail(outbox))
  /\ awaited' = {} /\ loop' = Again
  /\ deviceQueue' = [d \in Cameras |-> NoData]
  /\ lastDeviceData' = [d \in Cameras |-> NoData]
  /\ UNCHANGED <<devices, looking, tokens, stopped>>

\* Promise.all is over at the first rejection; the run ends with the queue as
\* it is, and nobody waits for its other telemetry any more.
TelemetryRejected ==
  /\ outbox # <<>> /\ Head(outbox).what = "telemetry"
  /\ IF Head(outbox).awaited
     THEN /\ Rejected([k \in DOMAIN Tail(outbox) |->
                         IF Tail(outbox)[k].what = "telemetry"
                         THEN [Tail(outbox)[k] EXCEPT !.awaited = FALSE]
                         ELSE Tail(outbox)[k]])
          /\ awaited' = {} /\ loop' = Again
     ELSE Rejected(Tail(outbox)) /\ UNCHANGED <<loop, awaited>>
  /\ UNCHANGED <<queue, devices, looking, tokens, stopped>>

\* Tokens come back with time.
Refill ==
  /\ tokens < Burst
  /\ tokens' = tokens + 1
  /\ UNCHANGED <<gateway, run, devices, stopped>>

RefreshToken ==
  /\ Refresh
  /\ UNCHANGED <<run, devices, tokens, stopped>>

\* Cameras come and go (mdns).
ServiceUp(d)   == devices' = devices \cup {d} /\ UNCHANGED <<run, tokens, stopped>>
ServiceDown(d) == devices' = devices \ {d} /\ UNCHANGED <<run, tokens, stopped>>

Look == \E d \in Cameras : FetchFailed(d) \/ \E counts \in Counts : Classified(d, counts)

Loop == Run \/ Look \/ TelemetryWritten \/ TelemetryRejected

Next ==
  \/ Loop \/ Refill \/ RefreshToken
  \/ \E d \in Cameras : (ServiceUp(d) \/ ServiceDown(d)) /\ UNCHANGED gateway

Spec == Init /\ [][Next]_vars

\* Timers fire, a fetch ends within 5 seconds, a classification ends, the
\* limiter gets tokens, and the connection is back at some time.
FairSpec ==
  /\ Spec
  /\ WF_vars(Run) /\ WF_vars(Look) /\ WF_vars(Refill)
  /\ WF_vars(TelemetryWritten)

-----------------------------------------------------------------------------
(* Properties.                                                             *)

TypeOK ==
  /\ GatewayTypeOK
  /\ devices \subseteq Cameras
  /\ deviceQueue \in [Cameras -> Counts \cup {NoData}]
  /\ lastDeviceData \in [Cameras -> Counts \cup {NoData}]
  /\ loop \in {"waiting", "looking", "sending", "ended"}
  /\ looking \subseteq Cameras /\ awaited \subseteq Cameras
  /\ tokens \in 0 .. Burst
  /\ stopped \in BOOLEAN

\* The classes of an entry, or of a telemetry.
ClassesOf(entry) == IF entry = NoData THEN {} ELSE Keys(entry)

\* The loop keeps the promise of FindingsLog: throttled, rejected, interrupted
\* or repeated, a finding stays in deviceQueue until a telemetry with it has
\* been written.
Log == INSTANCE FindingsLog
         WITH owed <- [d \in Cameras |-> ClassesOf(deviceQueue[d])],
              reported <- [d \in Cameras |-> ClassesOf(data[d])]

NoFindingLost == Log!Spec

\* While a run awaits its telemetry, what clearQueue will throw away is what
\* was sent: nothing is queued across the await.
QueueSettled ==
  loop = "sending" =>
    /\ lastDeviceData = deviceQueue
    /\ \A k \in DOMAIN outbox :
         outbox[k].what = "telemetry" /\ outbox[k].awaited =>
           outbox[k].counts = deviceQueue[outbox[k].camera]

\* Findings are sent to the cloud.
FindingsSent ==
  \A d \in Cameras : ClassesOf(deviceQueue[d]) # {} ~> ClassesOf(deviceQueue[d]) = {}
=============================================================================
