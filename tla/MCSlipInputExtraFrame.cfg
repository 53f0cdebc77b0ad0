SPECIFICATION Spec
CONSTANTS
  FRAME_END = FRAME_END
  FRAME_ESCAPE = FRAME_ESCAPE
  TRANS_FRAME_END = TRANS_FRAME_END
  TRANS_FRAME_ESCAPE = TRANS_FRAME_ESCAPE
  IP = IP
  NULL = NULL
  SlMax = 5
  MhLen = 4
  IpqMaxlen = 1
  MaxPackets = 2
PROPERTIES
  NoExtraFrameMissed
