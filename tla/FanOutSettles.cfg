SPECIFICATION LiveSpec
CONSTANTS
  r1 = r1
  r2 = r2
  here = here
  there = there
  i1 = i1
  i2 = i2
  Requests = {r1}
  LocationOf <- OneDevice
  Locations = {here}
  Instances = {i1, i2}
  BatchSize = 2
  MaxBin = 1
  MaxFaults = 1
PROPERTIES
  ResolvesOnce
  EveryRequestSettles
  AnsweredUnlessUnresolved
INVARIANTS
  OneApiCallPerKey
  AnswersMatchResolution
