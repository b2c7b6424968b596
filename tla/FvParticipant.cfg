\* Four periods to an increment, three to the request timeout.  The value 2 has the
\* same lower bytes as 0, so that what is verified differs from what is taken over.
CONSTANTS
  MainFunctionPeriod = 5
  TimeIncrementPeriod = 20
  TimeJitterMax = 6
  TimeRequestTimeout = 15
  FvModulus = 2
  MaxFv = 2
  Challenge = {c1, c2}
  Empty = Empty
SPECIFICATION SyncSpec
INVARIANTS
  TypeOK
  FvClockNeverStuck
  NothingProcessedIsEmpty
  ValidExactlyWhenIdle
  MainThreadInStep
  GivenUpAfterTimeout
PROPERTIES
  FollowsStateDiagramButForLateResponse
  SynchronisedAgainAndAgain
