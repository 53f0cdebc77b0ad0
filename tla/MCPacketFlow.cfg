SPECIFICATION Spec
CONSTANTS
  NULL = NULL
  Lo = lo
  Ethers = {le}
  Packets = {m1, m2, m3}
  Types <- MCTypes
  Requests <- MCRequests
  RoutesTo <- MCRoutesTo
  Leading = {FALSE}
  QMAX = 2
  LETBUF = 2
SYMMETRY MCSymmetry
CONSTRAINT MCAfterReuse
INVARIANTS
  TypeOK
  InputQueuesSound
  ReleasedOrKept
  QueuesWalkable
PROPERTIES
  ReleasedTwice
  FramesStuck
CHECK_DEADLOCK FALSE
