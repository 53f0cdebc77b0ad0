SPECIFICATION FairSpec
CONSTANTS
  NULL = NULL
  Domains = {"inet", "unix"}
  Switch <- MCSwitch
  Lists <- MCLists
  AddrLists <- MCAddrLists
  LINKHDR = 0
  PROTOHDR = 40
  MHLEN = 72
  Procs = {p1, p2, p3}
  Sizes <- MCSizes
  MSIZE = 1
  HIWAT = 6
  MBMAX = 8
  LOWAT = 2
  WORD = 32
  MaxChain = 3
INVARIANTS
  TypeOK
  DomainsReady
  LockDiscipline
  CountsTrusted
PROPERTIES
  SleepersWake
