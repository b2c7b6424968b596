\* Two periods to an increment, two increments to a broadcast.  The jitter bound
\* is below one period; MaxLead is what drift may put the participant ahead.
\* The clocks stop at MaxFv, which ends the run.
CONSTANTS
  MainFunctionPeriod = 5
  TimeIncrementPeriod = 10
  TimeJitterMax = 3
  TimeRequestTimeout = 10
  TimeSend = 20
  MaxFv = 3
  FvModulus = 8
  RandomFv = {0}
  Challenge = {c1, c2}
  Empty = Empty
  Ecu = ecu
  MaxLead = 1
SYMMETRY ChallengeSymmetry
SPECIFICATION Spec
INVARIANTS
  TypeOK
  NeverAheadButByDrift
PROPERTIES
  TakenValueIsFresh
  ChallengeTakenOnce
CHECK_DEADLOCK FALSE
