SPECIFICATION Spec
CONSTANTS
  Runs = {r1}
  LastPost = 2
  PageSize = 1
  MaxPages = 3
  Retries = 1
  Inputs <- EveryWay
  Texts = {"dated", "split", "none"}
  MaxFaults = 1
  Absent = Absent
  WholePage = WholePage
  NoRun = NoRun
  Rows = {w1, w2}
  Imports = {i1, i2}
  NoRow = NoRow
SYMMETRY Symmetry
INVARIANTS EachPostOnce WindowStored ImportedOnce
CHECK_DEADLOCK FALSE
