CONSTANTS
  Cameras = {front, back}
  GatewayId = gw
  NoData = NoData
  Classes = {}
  MaxCount = 1
  Rejects = {"attach", "offline"}
  Outages = FALSE
  MaxOutbox = 2
  Burst = 1
SPECIFICATION FairEdgeSpec
\* The process exits.
CHECK_DEADLOCK FALSE
INVARIANTS EdgeTypeOK PresenceSettled OfflineAtExit FarewellOrder
PROPERTIES SignalEnds
