SPECIFICATION SbpSpec
CONSTANTS
  e1 = e1
  t1 = t1
  Orders = {o1, o2}
  SbpOrders = {o1}
  Requests = {q1}
  Events = {e1}
  TicketProducts = {t1}
  TransferProducts = {}
  Promos = {}
  EventOf <- OneEvent
  MaxQty = 1
  MaxLimit = 1
  MaxFaults = 0
  NoPromo = NoPromo
  AnyEvent = AnyEvent
  NoScan = NoScan
  NoRequest = NoRequest
PROPERTIES AcceptedMarksPaid
CHECK_DEADLOCK FALSE
