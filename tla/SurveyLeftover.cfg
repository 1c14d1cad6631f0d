SPECIFICATION Spec
CONSTANTS
  u1 = u1
  u2 = u2
  s1 = s1
  Users = {u1, u2}
  Surveys = {s1}
  SurveyOf <- SameSurvey
  Ttl = 2
  Lag = 1
  NameDays = 5
  MaxNow = 6
  MaxFaults = 0
SYMMETRY UserSymmetry
INVARIANTS
  SurveysAreDeleted
