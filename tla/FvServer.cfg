\* Three periods to an increment, two increments to a broadcast; two clients,
\* so that answers to one can fail while the other gets its own.
CONSTANTS
  MainFunctionPeriod = 5
  TimeIncrementPeriod = 15
  TimeSend = 30
  MaxFv = 2
  FvModulus = 8
  RandomFv = {0, 1}
  Client = {a, b}
  Challenge = {c1, c2}
  NoChallenge = NoChallenge
SYMMETRY ServerSymmetry
SPECIFICATION WaitingSpec
INVARIANTS
  TypeOK
  CountersInStep
  AnswersOnIncrement
  DealtWithWithinIncrement
PROPERTY BroadcastIsRetried
