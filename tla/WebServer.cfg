SPECIFICATION FairSpec
CONSTANTS
  c1 = c1
  c2 = c2
  c3 = c3
  Clients = {c1, c2, c3}
  Requests = {"count", "elsewhere"}
  Sockets = 1
INVARIANTS
  TypeOK
  NumbersDistinct
  OnlyDeadlineDrops
PROPERTIES
  OneExchange
  AllEnd
CHECK_DEADLOCK FALSE
