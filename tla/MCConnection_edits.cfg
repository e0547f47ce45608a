SPECIFICATION FairSpec
CONSTANTS
  CRs = {k1}
  k1 = k1
  creds = creds
  ca = ca
  fw = fw
  URLs = {fw}
  SecretNames = {creds, ca}
  SecretContents <- TwoContents
  FirewallStates = {"down", "public", "private"}
  Specs <- TwoSpecs
  EnvOps = {"secrets", "firewalls"}
  MaxGen = 2
  None = None
PROPERTY ReadyTracks
