SPECIFICATION Spec
CONSTANTS
  Jobs = {j1, j2}
  Workers = {w1, w2}
  BatchLimit = 1
  MaxFaults = 1
  MaxExcuses = 2
  NoJob = NoJob
SYMMETRY QueueSymmetry
INVARIANTS DuplicatesExcused
