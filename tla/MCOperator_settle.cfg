SPECIFICATION FairSpec
CONSTANTS
  Connections = {k1}
  Resources = {r1}
  creds = creds
  fw1 = fw1
  fw2 = fw2
  URLs = {fw1}
  SecretNames = {creds}
  ConnectionSpecs <- OneFirewall
  SecretContents <- GoodContents
  FirewallStates = {"private"}
  EnvOps = {}
  UUIDs = {u1}
  MaxConnGen = 1
  MaxGen = 1
  None = None
PROPERTY Settles
