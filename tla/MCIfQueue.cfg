SPECIFICATION Spec
CONSTANTS
  NULL = NULL
  q1 = q1
  q2 = q2
  Mbufs = {m1, m2, m3, m4}
  Queues <- MCQueues
  MaxLen <- MCMaxLen
  MaxDrops = 3
SYMMETRY MCSymmetry
INVARIANTS
  TypeOK
  WellLinked
  OnePlace
PROPERTIES
  ImplementsFifo
