SPECIFICATION FairSpec
CONSTANTS
  NULL = NULL
  p1 = p1
  p2 = p2
  b1 = b1
  b2 = b2
  LowDelay <- MCLowDelay
  Icmp <- MCIcmp
  NSL = 2
  Ttys = {t1, t2}
  Packets = {p1, b1, b2}
  SndMaxlen = 2
  FastMaxlen = 2
  Hiwat = 1
  MaxChars = 2
INVARIANTS
  TypeOK
  LinkedBack
  NoLostWakeup
  BulkKeepsItsLine
PROPERTIES
  QueuesDrain
