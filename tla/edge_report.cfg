CONSTANTS
  Cameras = {front, back}
  GatewayId = gw
  NoData = NoData
  Classes = {cat, dog}
  MaxCount = 1
  Rejects = {"telemetry"}
  Outages = TRUE
  MaxOutbox = 4
  Burst = 1
SPECIFICATION Spec
INVARIANT QueueSettled
PROPERTY NoFindingLost
