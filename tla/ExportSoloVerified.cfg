SPECIFICATION FairSpec
CONSTANTS
  Verified = {v1}
  Legacy = {}
  Verdict <- MCVerdict
  Absent = Absent
  Self = v1
  Foreign = Foreign
  Partial = Partial
  MaxEdits = 2
  MaxFaults = 1
  MaxOutside = 0
CHECK_DEADLOCK FALSE
INVARIANTS ReportMatchesDisk NoSilentResidue
PROPERTIES ImplementsAtomicPublish EveryTransactionEnds
