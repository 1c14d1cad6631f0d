SPECIFICATION Spec
CONSTANTS
  r1 = r1
  r2 = r2
  here = here
  there = there
  i1 = i1
  i2 = i2
  Requests = {r1, r2}
  LocationOf <- SameCell
  Locations = {here}
  Instances = {i1}
  BatchSize = 2
  MaxBin = 0
  MaxFaults = 0
INVARIANTS
  RequeueMeansInProgress
