SPECIFICATION FairSpec
CONSTANTS
  Verified = {v1}
  Legacy = {l1}
  Verdict <- MCVerdict
  Absent = Absent
  Foreign = Foreign
  Partial = Partial
  MaxEdits = 0
  MaxFaults = 1
  MaxOutside = 1
CHECK_DEADLOCK FALSE
INVARIANTS TypeOK NoTornOutput
PROPERTIES GuardedReplacement EveryTransactionEnds
