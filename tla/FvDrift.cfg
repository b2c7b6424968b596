\* The constants of the code, but for a broadcast every second increment
\* instead of every tenth.
\* The server stops at MaxFv, which ends the run.
CONSTANTS
  MainFunctionPeriod = 5
  TimeIncrementPeriod = 100
  TimeJitterMax = 30
  TimeRequestTimeout = 250
  TimeSend = 200
  MaxFv = 4
  FvModulus = 8
  Challenge = {c1}
  Empty = Empty
SPECIFICATION DriftSpec
PROPERTIES
  NoFalseAlarm
  KeptIsBoundedLateAndEarly
CHECK_DEADLOCK FALSE
