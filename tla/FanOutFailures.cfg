SPECIFICATION Spec
CONSTANTS
  r1 = r1
  r2 = r2
  here = here
  there = there
  i1 = i1
  i2 = i2
  Requests = {r1, r2}
  LocationOf <- TwoCells
  Locations = {here, there}
  Instances = {i1, i2}
  BatchSize = 2
  MaxBin = 0
  MaxFaults = 1
SYMMETRY TwoCellsSymmetry
INVARIANTS
  FanOutInvariant
  EachRequestHasOneFate
  PendingIsInProgressIfAlone
