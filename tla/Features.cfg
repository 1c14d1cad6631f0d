SPECIFICATION FeatureSpec
CONSTANTS
  Events <- SomeEvents
  NoEvent = NoEvent
  MaxCopies = 2
  MaxFaults = 1
  Tries = 2
  RetryTries = 3
  MaxSteps = 4
  MaxMessages = 1
INVARIANTS
  FeatureTypeOK
  FreshReadingsAreStored
  GroupsJoinReadings
PROPERTIES
  PassedCheckHolds
  EveryStepEnds
CHECK_DEADLOCK FALSE
