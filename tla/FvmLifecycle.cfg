SPECIFICATION Spec
CONSTANTS
  ByteModulus = 3
  WordLength = 4
  MainFunctionPeriod = 5
  ChallengeTimeout = 5
  TimeModulus = 32
  MaxTime = 10
  File <- Files
  FvId = {1, 2}
INVARIANTS
  TypeOK
  InitialisedButForSkipped
  SetUpOnce
  SingleChallengeIdIsSafe
  AnswerSurvivesTheWire
PROPERTIES
  OnlyFirstAttemptInitialises
  OnlyLateChallengesAfterDeinit
\* An assertion may have ended the process.
CHECK_DEADLOCK FALSE
