SPECIFICATION Spec
CONSTANTS
  e1 = e1
  t1 = t1
  r1 = r1
  Orders = {o1, o2}
  Events = {e1}
  TicketProducts = {t1}
  TransferProducts = {r1}
  Promos = {}
  EventOf <- OneEvent
  MaxQty = 2
  MaxLimit = 1
  NoPromo = NoPromo
  AnyEvent = AnyEvent
  NoScan = NoScan
SYMMETRY OrderSymmetry
INVARIANTS SoldCountExact RedeemedIffAllUsed QrFollowsPayment
PROPERTIES NoOversell ImplementsLedger
CHECK_DEADLOCK FALSE
