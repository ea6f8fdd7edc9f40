SPECIFICATION Spec
CONSTANTS
  Callers = {a, b, c}
  Limit = 2
  Window = 3
  Second = 2
  Delay = 1
  NoReading = NoReading
  MaxTime = 5
SYMMETRY Symmetry
INVARIANTS
  TypeOK
  WindowBound
  RetryHonest
  FloodRecovers
