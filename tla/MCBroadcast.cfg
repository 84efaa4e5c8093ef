SPECIFICATION FairSpec
CONSTANTS
  b1 = b1
  Broadcasts = {b1}
  Jobs = {j1, j2}
  BroadcastOf <- OneBroadcast
  Requests = {q1, q2}
  BatchLimit = 2
  MaxFaults = 2
  Nothing = Nothing
INVARIANTS DoneMeansSent OneDuplicatePerFault
PROPERTIES ImplementsContract JobsSettle BroadcastFinishes
