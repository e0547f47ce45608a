SPECIFICATION Spec
CONSTANTS
  CRs = {c1}
  UUIDs = {u1, u2}
  c1 = c1
  c2 = c2
  web = web
  db = db
  good = good
  other = other
  bad = bad
  text = text
  Names = {web, db}
  Contents = {good, other, bad}
  ValidContents = {good, other}
  Descs = {text}
  SpecsOf <- Described
  AdminOps = {}
  MaxGen = 2
  None = None
SYMMETRY UUIDSymmetry
INVARIANT ReadyIsTruthful
