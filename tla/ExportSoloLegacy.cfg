SPECIFICATION Spec
CONSTANTS
  Verified = {}
  Legacy = {l1}
  Verdict <- MCVerdict
  Absent = Absent
  Self = l1
  Foreign = Foreign
  Partial = Partial
  MaxEdits = 1
  MaxFaults = 3
  MaxOutside = 0
CHECK_DEADLOCK FALSE
INVARIANTS ReportMatchesDisk RejectionRetained FailedCleanupIsReported
PROPERTY ImplementsAtomicPublish
