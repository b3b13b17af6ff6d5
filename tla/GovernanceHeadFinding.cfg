SPECIFICATION Spec
CONSTANTS
  c1 = c1
  c2 = c2
  k1 = k1
  k2 = k2
  r1 = r1
  r2 = r2
  i1 = i1
  i2 = i2
  s1 = s1
  s2 = s2
  Commits = {c1, c2}
  NotSha = NotSha
  Runs = {r1, r2}
  NoRun = NoRun
  None = None
  Torn = Torn
  Tree <- MCTree
  Drafts = {}
  Reviews <- MCReviews
  Inspectors = {i1, i2}
  Scenarios <- NamedHeads
  MaxTurns = 1
  MaxChanges = 0
CHECK_DEADLOCK FALSE
INVARIANT DisclosureIsOfTheNamedHead
