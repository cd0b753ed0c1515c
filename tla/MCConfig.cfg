SPECIFICATION FairSpec
CONSTANTS
  Typed = {101}
  Outside = {201, 202}
  Schedules = {"daily"}
  MaxGen = 3
  Head = 2
  Faults = {"write", "pwfile", "envpassword", "crash", "rotate", "blank"}
  MaxFaults = 2
INVARIANTS SecretsStayOut RestartChangesNothing GeneratedIsInFile SessionsSurvive
PROPERTIES ComesUpAgain
CHECK_DEADLOCK FALSE
