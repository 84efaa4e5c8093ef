SPECIFICATION Spec
CONSTANTS
  Users = {u1, u2}
  Events = {e1, e2}
  Requests = {r1, r2}
  HourLimit = 1
  Capacities = {0, 1}
  Starts = {"kept", "ahead", "near"}
  Privacy = {FALSE, TRUE}
  MaxFaults = 1
  Nobody = Nobody
  NoRequest = NoRequest
SYMMETRY Symmetry
CHECK_DEADLOCK FALSE
INVARIANTS TypeOK OverrunBounded RemindersReach PrivateGuarded HourlyLimitBounded
CONSTRAINT Bounded
