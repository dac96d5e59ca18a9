CONSTANTS
  Settings <- DefaultSurvey
  MaxConfigures = 2
  MaxFailures = 0
  MaxRestarts = 0
SPECIFICATION FairSpec
PROPERTIES
  SurveyEndsInTimeMode
CHECK_DEADLOCK FALSE
