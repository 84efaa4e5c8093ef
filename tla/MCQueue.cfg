SPECIFICATION FairSpec
CONSTANTS
  Jobs = {j1, j2}
  Workers = {w1}
  BatchLimit = 2
  MaxFaults = 2
  MaxExcuses = 2
  NoJob = NoJob
INVARIANTS OneDuplicatePerFault
PROPERTIES EventuallySettled ImplementsContract
