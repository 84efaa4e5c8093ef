SPECIFICATION SbpSpec
CONSTANTS
  e1 = e1
  t1 = t1
  Orders = {o1}
  SbpOrders = {o1}
  Requests = {q1, q2}
  Events = {e1}
  TicketProducts = {t1}
  TransferProducts = {}
  Promos = {}
  EventOf <- OneEvent
  MaxQty = 1
  MaxLimit = 1
  MaxFaults = 1
  NoPromo = NoPromo
  AnyEvent = AnyEvent
  NoScan = NoScan
  NoRequest = NoRequest
SYMMETRY RequestSymmetry
INVARIANTS PaidNeedsBank BooksTruthful AnnouncedOnce
CHECK_DEADLOCK FALSE
