CONSTANTS
  Request = {r1, r2, r3}
  r1 = r1
  r2 = r2
  r3 = r3
  MaxRestarts = 2
SPECIFICATION Spec
SYMMETRY Requests
CHECK_DEADLOCK FALSE
INVARIANT TypeOK
INVARIANT CountersAreNested
INVARIANT ReadsAreCurrent
INVARIANT ExcessIsOfLateRuns
INVARIANT DropMeansRestart
