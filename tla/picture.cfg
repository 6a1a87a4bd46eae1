CONSTANTS
  Frame <- MCFrame
  OutBuf = 120
  Quality = 80
  MayFail = {"mcu", "line"}
  Recovers = {"JPEG"}
  MaxRespHeaders = 8
  NULL = NULL
SPECIFICATION Spec
   
PROPERTIES FrameReturned
CHECK_DEADLOCK FALSE
