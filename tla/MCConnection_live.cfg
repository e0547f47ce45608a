SPECIFICATION FairSpec
CONSTANTS
  CRs = {k1}
  k1 = k1
  creds = creds
  ca = ca
  fw = fw
  URLs = {fw}
  SecretNames = {creds, ca}
  SecretContents <- AllContents
  FirewallStates = {"down", "public", "private"}
  Specs <- AllSpecs
  EnvOps = {"secrets", "firewalls"}
  MaxGen = 1
  None = None
INVARIANT TypeOK
PROPERTY ReadyTracks
