SPECIFICATION Spec
CONSTANTS
  u1 = u1
  u2 = u2
  here = here
  w1 = w1
  w2 = w2
  Users = {u1, u2}
  CellOf <- SameCell
  Cells = {here}
  Workers = {w1, w2}
  BatchSize = 2
  Overlap = 0
  MaxDays = 1
  MaxFaults = 1
INVARIANTS
  CellInvariant
  OneResolutionAtATime
  OneStartPerDay
PROPERTIES
  ResolvesWhileUnknown
