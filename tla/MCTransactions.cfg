SPECIFICATION TxnSpec
CONSTANTS
  e1 = e1
  e2 = e2
  t1 = t1
  r1 = r1
  Orders = {o1, o2}
  Events = {e1, e2}
  TicketProducts = {t1}
  TransferProducts = {r1}
  Promos = {c1}
  EventOf <- OneEvent
  MaxQty = 1
  MaxLimit = 1
  NoPromo = NoPromo
  AnyEvent = AnyEvent
  NoScan = NoScan
  Sessions = {s1, s2}
SYMMETRY Symmetry
INVARIANTS PromoUseCounted SpelledBySchema
PROPERTIES CommitsAtOnce PromoCapHeld
CONSTRAINT Bounded
CHECK_DEADLOCK FALSE
