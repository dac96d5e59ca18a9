CONSTANTS
  Settings <- SpareSignals
  MaxConfigures = 2
  MaxFailures = 1
  MaxRestarts = 0
SPECIFICATION Spec
PROPERTIES
  SurveyNeverReset
CHECK_DEADLOCK FALSE
