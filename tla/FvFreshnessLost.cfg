\* A start value of 150 lies between the two start times, so that the test of
\* the value against the time of first use goes both ways; 99999 and 88888 stand
\* for two values no clock reaches.  The bounds of a scenario end its run.
CONSTANTS
  SessionCounterLength = 1
  ByteModulus = 8
  WordLength = 8
  TimeIncrementPeriod = 100
  TimeValidTimeout = 100
  UpstartTime = 99999
  InvalidTime = 88888
  FirstFv = {150}
  FirstTime = {0, 200}
  Scenario <- OnlyDocumented
  Verifier = {1, 2}
  None = None
SPECIFICATION Spec
INVARIANT SinkSurvives
CHECK_DEADLOCK FALSE
