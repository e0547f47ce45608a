SPECIFICATION Spec
CONSTANTS
  CRs = {c1, c2}
  UUIDs = {u1, u2}
  c1 = c1
  c2 = c2
  good = good
  other = other
  bad = bad
  s1 = s1
  s2 = s2
  Bodies <- BodySet
  ValidBodies = {good, other}
  Seqs = {s1}
  Specs <- OneSpec
  Mentions <- OwnOnly
  AdminOps = {"delete"}
  MaxGen = 1
  MaxLate = 1
  None = None
SYMMETRY FullSymmetry
INVARIANT TypeOK
INVARIANT DeletionInv
INVARIANT Exclusive
PROPERTY CleanupBeforeRelease
PROPERTY OnlyOwnRulesWritten
