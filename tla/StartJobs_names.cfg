SPECIFICATION Spec
CONSTANTS
  s1 = s1
  s2 = s2
  s3 = s3
  s4 = s4
  s5 = s5
  Starters = {s1, s2, s3, s4, s5}
  Together <- MCTogether
  N <- MCN
  Mode <- MCMode
  Throttle = 2
  Named <- NoneNamed
  DryRun = FALSE
INVARIANT
  OwnThrottleHeld
CHECK_DEADLOCK FALSE
