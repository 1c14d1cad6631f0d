SPECIFICATION LiveSpec
CONSTANTS
  u1 = u1
  u2 = u2
  here = here
  w1 = w1
  w2 = w2
  Users = {u1}
  CellOf <- OneUser
  Cells = {here}
  Workers = {w1}
  BatchSize = 2
  Overlap = 1
  MaxDays = 1
  MaxFaults = 2
PROPERTIES
  EveryUserIsAnswered
INVARIANTS
  DroppedJobIsInProcess
