SPECIFICATION Spec
CONSTANTS
  NULL = NULL
  p1 = p1
  p2 = p2
  b1 = b1
  b2 = b2
  LowDelay <- MCLowDelay
  Icmp <- MCIcmp
  NSL = 1
  Ttys = {t1, t2}
  Packets = {p1, p2, b1}
  SndMaxlen = 2
  FastMaxlen = 1
  Hiwat = 1
  MaxChars = 2
INVARIANTS
  FastKeepsItsLine
