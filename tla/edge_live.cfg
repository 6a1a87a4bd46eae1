CONSTANTS
  Cameras = {front, back}
  GatewayId = gw
  NoData = NoData
  Classes = {cat}
  MaxCount = 1
  Rejects = {}
  Outages = FALSE
  MaxOutbox = 3
  Burst = 1
SPECIFICATION FairSpec
PROPERTY FindingsSent
