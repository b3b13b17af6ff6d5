SPECIFICATION Spec
CONSTANTS
  n1 = n1
  n2 = n2
  f1 = f1
  f2 = f2
  Nodes = {n1, n2}
  Orphan = Orphan
  Approved = {"k1"}
  Files = {f1, f2}
  NoFile = NoFile
  Inputs <- EvidentialInputs
  MaxEdits = 1
INVARIANT RuntimeClaimsStayObligations
