SPECIFICATION SbpFairSpec
CONSTANTS
  e1 = e1
  t1 = t1
  Orders = {o1, o2}
  SbpOrders = {o1}
  Requests = {q1}
  Events = {e1}
  TicketProducts = {t1}
  TransferProducts = {}
  Promos = {}
  EventOf <- OneEvent
  MaxQty = 1
  MaxLimit = 1
  MaxFaults = 1
  NoPromo = NoPromo
  AnyEvent = AnyEvent
  NoScan = NoScan
  NoRequest = NoRequest
PROPERTIES AcceptedGetsPaid ImplementsLedger
CHECK_DEADLOCK FALSE
