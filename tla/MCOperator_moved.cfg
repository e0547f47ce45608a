SPECIFICATION Spec
CONSTANTS
  Connections = {k1}
  Resources = {r1}
  creds = creds
  fw1 = fw1
  fw2 = fw2
  URLs = {fw1, fw2}
  SecretNames = {creds}
  ConnectionSpecs <- TwoFirewalls
  SecretContents <- GoodContents
  FirewallStates = {"private"}
  EnvOps = {}
  UUIDs = {u1, u2}
  MaxConnGen = 2
  MaxGen = 1
  None = None
SYMMETRY UUIDSymmetry
PROPERTY Implements
