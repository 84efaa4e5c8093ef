SPECIFICATION Spec
CONSTANTS
  Runs = {r1}
  LastPost = 3
  PageSize = 1
  MaxPages = 2
  Retries = 1
  Inputs <- Channel
  Texts = {"dated", "split", "none"}
  MaxFaults = 1
  Absent = Absent
  WholePage = WholePage
  NoRun = NoRun
  Rows = {w1, w2}
  Imports = {i1, i2}
  NoRow = NoRow
INVARIANTS AllPostsExtracted
CHECK_DEADLOCK FALSE
