----------------------------- MODULE EdgeServer -----------------------------
(***************************************************************************)
(* The edge server as a process: its loop (EdgeTelemetry) together with    *)
(* the announcements of cameras that come and go (EdgeServer.start,        *)
(* DeviceListener.js) and the shutdown on a signal (EdgeServer.stop,       *)
(* index.js).                                                              *)
(***************************************************************************)
EXTENDS EdgeTelemetry

VARIABLES
  phase,     \* how far the server's start or stop is
  leaving,   \* stop: the cameras it sends offline events for, until written
  exit,      \* "running", or how the process has exited (codes 0 and 1)
  overtaken  \* history: cameras removed while their attach was pending, or with a message rejected

server == <<phase, leaving, exit, overtaken>>
all    == <<vars, server>>

Phases == {"loading",  \* start awaits classifier.load
           "up",
           "gateway",  \* stop awaits the gateway's offline event
           "devices",  \* stop awaits the cameras' offline events
           "grace",    \* stop has sent them all and waits 2 seconds
           "over"}     \* stop has returned

EdgeInit ==
  /\ Init
  /\ phase = "loading" /\ leaving = {} /\ exit = "running" /\ overtaken = {}

Alive == exit = "running"
Serving == Alive /\ phase # "loading"

\* Offline events for a set of cameras.
Farewells(cameras) ==
  LET s == SetToSeq(cameras)
  IN  [k \in DOMAIN s |-> Notice(s[k], "offline", TRUE)]

\* The classifier is loaded: everything is started and the first run, which
\* finds no camera yet, is over before the event loop goes on.
Start ==
  /\ Alive /\ phase = "loading"
  /\ phase' = "up"
  /\ outbox' = Append(outbox, Notice(GatewayId, "online", FALSE))
  /\ UNCHANGED <<data, state, run, devices, tokens, stopped, leaving, exit, overtaken>>

-----------------------------------------------------------------------------
(* Cameras.                                                                *)

\* serviceUp: deviceAdded, whose handler waits for the attach.
CameraUp(d) ==
  /\ Alive /\ phase = "up" /\ Len(outbox) < MaxOutbox
  /\ ServiceUp(d)
  /\ outbox' = Append(outbox, Notice(d, "attach", TRUE))
  /\ overtaken' = overtaken \ {d}
  /\ UNCHANGED <<data, state, phase, leaving, exit>>

\* serviceDown: deviceRemoved, whose handler publishes both at once.
\* Mutant: it detaches the camera first, and never says it is offline.
CameraDownSilent(d) ==
  /\ Alive /\ phase = "up" /\ d \in devices /\ Len(outbox) < MaxOutbox
  /\ ServiceDown(d)
  /\ outbox' = Append(outbox, Notice(d, "detach", FALSE))
  /\ overtaken' = IF Pending(d, {"attach"}) THEN overtaken \cup {d} ELSE overtaken
  /\ UNCHANGED <<data, state, phase, leaving, exit>>

CameraDown(d) ==
  /\ Alive /\ phase = "up" /\ d \in devices /\ Len(outbox) < MaxOutbox
  /\ ServiceDown(d)
  /\ outbox' = outbox \o <<Notice(d, "offline", FALSE), Notice(d, "detach", FALSE)>>
  /\ overtaken' = IF Pending(d, {"attach"}) THEN overtaken \cup {d} ELSE overtaken
  /\ UNCHANGED <<data, state, phase, leaving, exit>>

\* The attach is written: the handler of deviceAdded goes on, even if the
\* camera is gone or the server stops.
Attached ==
  /\ Serving /\ outbox # <<>> /\ Head(outbox).what = "attach"
  /\ Written(Append(Tail(outbox), Notice(Head(outbox).camera, "online", FALSE)))
  /\ UNCHANGED <<run, devices, tokens, stopped, server>>

\* Messages nobody waits for.
NoticeWritten ==
  /\ Serving /\ outbox # <<>>
  /\ ~ Head(outbox).awaited /\ Head(outbox).what # "telemetry"
  /\ Written(Tail(outbox))
  /\ UNCHANGED <<run, devices, tokens, stopped, server>>

\* A rejected attach ends its handler: no online event.
NoticeRejected ==
  /\ Serving /\ outbox # <<>>
  /\ Head(outbox).what = "attach" \/ ~ Head(outbox).awaited
  /\ Head(outbox).what # "telemetry"
  /\ Rejected(Tail(outbox))
  /\ overtaken' = overtaken \cup ({Head(outbox).camera} \cap Cameras)
  /\ UNCHANGED <<run, devices, tokens, stopped, phase, leaving, exit>>

-----------------------------------------------------------------------------
(* Shutdown.                                                               *)

\* Mutant: all offline events are published at once.
SignalAllAtOnce ==
  /\ Alive /\ ~ stopped
  /\ stopped' = TRUE
  /\ IF phase = "loading"
     THEN phase' = "over" /\ exit' = "clean" /\ UNCHANGED <<outbox, leaving>>
     ELSE /\ phase' = "gateway"
          /\ leaving' = devices
          /\ outbox' = Append(outbox, Notice(GatewayId, "offline", TRUE)) \o Farewells(devices)
          /\ UNCHANGED exit
  /\ UNCHANGED <<data, state, run, devices, tokens, overtaken>>

\* SIGTERM or SIGINT.  Before start has connected the gateway there is no
\* client to publish with, and stop is over at once.
Signal ==
  /\ Alive /\ ~ stopped
  /\ stopped' = TRUE
  /\ IF phase = "loading"
     THEN phase' = "over" /\ exit' = "clean" /\ UNCHANGED <<outbox, leaving>>
     ELSE /\ phase' = "gateway"
          /\ leaving' = devices
          /\ outbox' = Append(outbox, Notice(GatewayId, "offline", TRUE))
          /\ UNCHANGED exit
  /\ UNCHANGED <<data, state, run, devices, tokens, overtaken>>

\* Mutant: the cameras' offline events are not awaited.
GatewayLeftNoAwait ==
  /\ Alive /\ phase = "gateway"
  /\ outbox # <<>> /\ Head(outbox).camera = GatewayId /\ Head(outbox).awaited
  /\ phase' = "grace"
  /\ Written(Tail(outbox) \o Farewells(leaving))
  /\ UNCHANGED <<run, devices, tokens, stopped, leaving, exit, overtaken>>

GatewayLeft ==
  /\ Alive /\ phase = "gateway"
  /\ outbox # <<>> /\ Head(outbox).camera = GatewayId /\ Head(outbox).awaited
  /\ IF leaving = {} THEN phase' = "grace" ELSE phase' = "devices"
  /\ Written(Tail(outbox) \o Farewells(leaving))
  /\ UNCHANGED <<run, devices, tokens, stopped, leaving, exit, overtaken>>

CameraLeft ==
  /\ Alive /\ phase = "devices"
  /\ outbox # <<>> /\ Head(outbox).what = "offline" /\ Head(outbox).awaited
  /\ Written(Tail(outbox))
  /\ leaving' = leaving \ {Head(outbox).camera}
  /\ phase' = IF leaving' = {} THEN "grace" ELSE "devices"
  /\ UNCHANGED <<run, devices, tokens, stopped, exit, overtaken>>

\* The end of stop, after 2 seconds or a rejected event, wins the race of
\* gracefulShutdown.
StopReturns ==
  /\ Alive
  /\ \/ phase = "grace" /\ UNCHANGED gateway
     \/ /\ phase \in {"gateway", "devices"}
        /\ outbox # <<>> /\ Head(outbox).what = "offline" /\ Head(outbox).awaited
        /\ Rejected(Tail(outbox))
  /\ phase' = "over" /\ exit' = "clean"
  /\ UNCHANGED <<run, devices, tokens, stopped, leaving, overtaken>>

\* Mutant: the shutdown is forced only while the cameras are told.
ForcedExitLate ==
  /\ Alive /\ phase \in {"devices", "grace"}
  /\ exit' = "forced"
  /\ UNCHANGED <<vars, phase, leaving, overtaken>>

\* 5 seconds are over first.
ForcedExit ==
  /\ Alive /\ stopped
  /\ exit' = "forced"
  /\ UNCHANGED <<vars, phase, leaving, overtaken>>

-----------------------------------------------------------------------------
CamerasChange == \E d \in Cameras : CameraUp(d) \/ CameraDown(d)
Notices == Attached \/ NoticeWritten \/ NoticeRejected
Shutdown == Signal \/ GatewayLeft \/ CameraLeft \/ StopReturns \/ ForcedExit

EdgeNext ==
  \/ Start \/ CamerasChange \/ Notices \/ Shutdown
  \/ Serving /\ (Loop \/ Refill \/ RefreshToken) /\ UNCHANGED server

EdgeSpec == EdgeInit /\ [][EdgeNext]_all

\* What is written is up to the network; that the timer of the forced exit
\* fires is not.
FairEdgeSpec == EdgeSpec /\ WF_all(ForcedExit)

-----------------------------------------------------------------------------
(* Properties.                                                             *)

EdgeTypeOK ==
  /\ TypeOK
  /\ phase \in Phases
  /\ leaving \subseteq Cameras /\ overtaken \subseteq Cameras
  /\ exit \in {"running", "clean", "forced"}

\* Once nothing of a camera is pending, the cloud shows it online exactly if
\* mdns has announced it, however often it came and went: the attach comes
\* before the online event and the offline event is the last.  The exceptions
\* are a camera that went before its attach was written (the handler of
\* deviceAdded does not look whether it is still there) and one of whose
\* messages the broker rejected (nothing is sent again).
PresenceSettled ==
  phase = "up" =>
    \A d \in Cameras \ overtaken :
      ~ Pending(d, {"attach", "detach", "online", "offline"}) =>
        (state[d] = "online" <=> d \in devices)

\* "All offline events sent": from then on the cloud shows no camera online.
AllOffline(cameras) ==
  phase = "grace" => \A d \in cameras : state[d] # "online"

OfflineAtExit == AllOffline(Cameras \ overtaken)
AllOfflineSent == AllOffline(Cameras)

\* While a camera's farewell is under way the gateway is offline already, and
\* nothing comes after the farewell that would show the camera online again,
\* attach it, or detach it: only other farewells and the telemetry of a run
\* that stop does not wait for.
FarewellOrder ==
  \A k \in DOMAIN outbox :
    outbox[k].awaited /\ outbox[k].what = "offline" /\ outbox[k].camera \in Cameras =>
      /\ state[GatewayId] = "offline"
      /\ \A j \in k + 1 .. Len(outbox) : outbox[j].what \in {"offline", "telemetry"}

\* A signal ends the process, whatever hangs: the 5 seconds of
\* gracefulShutdown.
SignalEnds == stopped ~> exit # "running"
=============================================================================
