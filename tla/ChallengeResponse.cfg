\* Two periods to the timeout and time for two challenges to time out.  Two
\* threads trigger, SecOC verifies one response at a time, and each signal is
\* taken up twice.
CONSTANTS
  MainFunctionPeriod = 5
  ChallengeTimeout = 10
  MaxTime = 20
  MaxReceived = 2
  Challenge = {c1, c2, c3}
  Caller = {t1, t2}
  Verifier = {v1}
  None = None
SYMMETRY CrSymmetry
SPECIFICATION Spec
INVARIANTS
  TypeOK
  AcceptedOnce
  AcceptedIsSpent
PROPERTIES
  NotReplacedEarly
  ImplementsOneTimeChallenge
