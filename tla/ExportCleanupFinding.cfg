SPECIFICATION Spec
CONSTANTS
  Verified = {v1}
  Legacy = {}
  Verdict <- MCVerdict
  Absent = Absent
  Foreign = Foreign
  Partial = Partial
  MaxEdits = 0
  MaxFaults = 2
  MaxOutside = 0
CHECK_DEADLOCK FALSE
INVARIANT FailedCleanupIsReported
