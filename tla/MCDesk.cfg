SPECIFICATION DeskSpec
CONSTANTS
  Admins = {admin}
  Users = {c1, c2}
  LastUpdate = 3
  MaxChatFaults = 1
  NoChat = NoChat
  Callers = {r1, r2}
  Skew = 2
  MaxDelay = 1
  Lifetimes = {4}
  DefaultLifetime = 3
  MaxTime = 6
  NoToken = NoToken
  NoCaller = NoCaller
  Calls = {a1, a2}
  Keys = {k1, k2}
  Limit = 1
  Window = 3
  MaxLag = 1
  LastTime = 5
  NoCall = NoCall
  TelegramUsers = {tg}
  VKUsers = {vk}
  Administrators = {tg}
  Logons = {l1, l2}
  MaxAge = 1
  StateTTL = 1
  AccessTTL = 1
  EndOfTime = 2
  MaxHeld = 1
  MaxTokens = 1
  Members = {p1, p2}
  Parties = {e1, e2}
  Transfers = {t1, t2}
  Bonus = 2
  Amounts = {1}
  MaxTopUps = 1
  MaxTries = 2
  Owners = {o1, o2}
  Devices = {d1}
  NoDevice = NoDevice
  PushKeys = {n1, n2}
  Registrars = {g1, g2}
  TicketProducts = {x1, x2}
  TransferProducts = {y1}
  Orders = {z1}
  EventRow = EventRow
  PromoRow = PromoRow
  Sessions = {s1, s2}
SYMMETRY Symmetry
CONSTRAINT Bounded
INVARIANTS
  DeskTypeOK TextsReachMeant TranscriptTruthful HeldTokenValid TwiceTheLimit
  TokensEarned WalletExact OneActivePerDevice CirclesOverProducts
CHECK_DEADLOCK FALSE
