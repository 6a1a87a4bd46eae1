CONSTANTS
  Configs <- MCConfigs
  Models = {"ov2640", "ov7725", "other"}
  MayFail = {"state", "dmaArray", "fb", "dataReady", "frameReady", "fbIn", "fbOut", "task", "vsyncIsr"}
  Tuned <- MCTuned
  Resized = {5}
  DeinitRunning = FALSE
  InitTwice = FALSE
  NULL = NULL
SPECIFICATION Spec
INVARIANTS AllOrNothing  SensorAgrees DmaFits
