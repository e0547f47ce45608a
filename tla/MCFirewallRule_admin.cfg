SPECIFICATION FairSpec
CONSTANTS
  CRs = {c1}
  UUIDs = {u1, u2, u3}
  c1 = c1
  c2 = c2
  good = good
  other = other
  bad = bad
  s1 = s1
  s2 = s2
  Bodies <- BodySet
  ValidBodies = {good, other}
  Seqs = {s1}
  Specs <- OneSpec
  Mentions <- OwnOnly
  AdminOps = {"clone", "delete", "redescribe"}
  MaxGen = 1
  MaxLate = 0
  None = None
PROPERTY Implements
PROPERTY AmbiguityReported
