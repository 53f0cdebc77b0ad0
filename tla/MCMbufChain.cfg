SPECIFICATION Spec
CONSTANTS
  MLEN = 5
  PKTHDR = 2
  MCLBYTES = 9
  LONG = 2
  JUNK = JUNK
  MaxMbufs = 3
  MaxBytes = 9
  MaxOps = 2
  FRAME_END = 4
  FRAME_ESCAPE = 2
  TRANS_FRAME_END = 220
  TRANS_FRAME_ESCAPE = 221
INVARIANTS
  TypeOK
  CopiesExact
  TrimFrontExact
  PrependExact
  DevgetExact
  RelinkingExact
  LineFrames
