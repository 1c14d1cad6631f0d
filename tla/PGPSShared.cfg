SPECIFICATION Spec
CONSTANTS
  d1 = d1
  d2 = d2
  d3 = d3
  i1 = i1
  Devices = {d1, d2, d3}
  RequestOf <- AroundToday
  Instances = {i1}
  MaxAge = 2
  FirstHour = 480022
  LastHour = 480023
\* Every device asks once.
CHECK_DEADLOCK FALSE
INVARIANTS
  PGPSInvariant
  PredictionsMatchRequest
  QuestionsAreAvailable
  CurrentDayIsAccepted
