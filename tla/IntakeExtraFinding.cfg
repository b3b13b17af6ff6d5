SPECIFICATION Spec
CONSTANTS
  f1 = f1
  f2 = f2
  f3 = f3
  Files <- MCFiles
  Mirrors <- MCMirrors
  Scenarios <- Unrelated
CHECK_DEADLOCK FALSE
INVARIANTS ValidInputIsRouted
