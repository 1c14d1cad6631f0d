SPECIFICATION LiveSpec
CONSTANTS
  u1 = u1
  u2 = u2
  s1 = s1
  Users = {u1, u2}
  Surveys = {s1}
  SurveyOf <- SameSurvey
  Ttl = 1
  Lag = 1
  NameDays = 4
  MaxNow = 6
  MaxFaults = 1
INVARIANTS
  SurveyInvariant
  OneExecution
PROPERTIES
  ResolvesOnce
  ConflictMeansInProcess
  EveryUserIsAnswered
