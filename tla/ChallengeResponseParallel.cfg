\* Two responses may be verified at a time.
CONSTANTS
  MainFunctionPeriod = 5
  ChallengeTimeout = 10
  MaxTime = 25
  MaxReceived = 1
  Challenge = {c1, c2}
  Caller = {t1}
  Verifier = {v1, v2}
  None = None
SYMMETRY CrSymmetry
SPECIFICATION Spec
INVARIANT AcceptedOnce
