SPECIFICATION Spec
CONSTANTS
  Verified = {v1}
  Legacy = {l1}
  Verdict <- MCVerdict
  Absent = Absent
  Foreign = Foreign
  Partial = Partial
  MaxEdits = 2
  MaxFaults = 0
  MaxOutside = 0
CHECK_DEADLOCK FALSE
INVARIANTS PublishedInputsCoexisted HandoffIsEarned
