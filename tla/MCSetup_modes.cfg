CONSTANTS
  Settings <- EveryMode
  MaxConfigures = 3
  MaxFailures = 2
  MaxRestarts = 1
SPECIFICATION Spec
INVARIANTS
  TypeOK
  ModesAgree
  OneConnectionLeftOver
  CorrectionsHavePosition
PROPERTIES
  SurveyKept
CHECK_DEADLOCK FALSE
