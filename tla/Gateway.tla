------------------------------ MODULE Gateway -------------------------------
(***************************************************************************)
(* The connection to Cloud IoT Core (CloudIoTCoreGateway.js) and what the  *)
(* cloud shows (functions/index.js).                                       *)
(*                                                                         *)
(* publish hands a message to the MQTT client and returns a promise.  The  *)
(* client, a library, keeps the messages in order (outbox) until each is   *)
(* written, which resolves its promise; it may also reject one.  Every     *)
(* connect() ends the client and makes another, every 20 minutes when the  *)
(* token expires: what is in the outbox by then is neither written nor     *)
(* rejected, its promise stays pending.                                    *)
(***************************************************************************)
EXTENDS Findings, Sequences

CONSTANTS
  Cameras,   \* the names of the cameras
  GatewayId, \* the device id of the gateway
  NoData,    \* a camera has no telemetry, or no entry in the queue
  Rejects,   \* the kinds of messages whose publish the client may reject
  Outages,   \* may an outage last until the token is refreshed?
  MaxOutbox  \* bound: messages pending when a camera comes or goes

ASSUME GatewayAssumption ==
  /\ GatewayId \notin Cameras
  /\ NoData \notin Counts
  /\ Rejects \subseteq {"attach", "detach", "online", "offline", "telemetry"}
  /\ Outages \in BOOLEAN
  /\ MaxOutbox \in Nat

VARIABLES
  outbox,    \* the messages published and neither written nor rejected
  data,      \* /devices/<id>/data, from the last telemetry written
  state      \* the status in /devices/<id>/meta, from the last state written

gateway == <<outbox, data, state>>

\* A message; awaited says whether run or stop waits for its promise.
Message ==
  [camera  : Cameras \cup {GatewayId},
   what    : {"attach", "detach", "online", "offline", "telemetry"},
   counts  : Counts,
   awaited : BOOLEAN]

Event(d, counts) ==
  [camera |-> d, what |-> "telemetry", counts |-> counts, awaited |-> TRUE]

Notice(d, what, awaited) ==
  [camera |-> d, what |-> what, counts |-> NoCounts, awaited |-> awaited]

GatewayInit ==
  /\ outbox = <<>>
  /\ data = [d \in Cameras |-> NoData]
  /\ state = [d \in Cameras \cup {GatewayId} |-> "none"]

\* The first message has been written; next is the rest of the outbox, with
\* what its sender publishes once its await is over.
Written(next) ==
  LET m == Head(outbox)
  IN  /\ data' = IF m.what = "telemetry" THEN [data EXCEPT ![m.camera] = m.counts]
                 ELSE data
      /\ state' = IF m.what \in {"online", "offline"}
                  THEN [state EXCEPT ![m.camera] = m.what] ELSE state
      /\ outbox' = next

Rejected(next) ==
  /\ Head(outbox).what \in Rejects
  /\ outbox' = next
  /\ UNCHANGED <<data, state>>

\* checkConnection, when the token has expired.
Refresh ==
  /\ Outages \/ outbox = <<>>
  /\ outbox' = <<>>
  /\ UNCHANGED <<data, state>>

\* Does a message of this kind for the camera wait in the outbox?
Pending(d, kinds) ==
  \E k \in DOMAIN outbox : outbox[k].camera = d /\ outbox[k].what \in kinds

GatewayTypeOK ==
  /\ outbox \in Seq(Message)
  /\ data \in [Cameras -> Counts \cup {NoData}]
  /\ state \in [Cameras \cup {GatewayId} -> {"none", "online", "offline"}]
=============================================================================
