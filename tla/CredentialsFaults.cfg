SPECIFICATION Spec
CONSTANTS
  alice = alice
  bob = bob
  a1 = a1
  a2 = a2
  a3 = a3
  b1 = b1
  r1 = r1
  r2 = r2
  Label <- OneName
  CN <- OneNameCN
  Candidates <- OneNameCandidates
  Req = {r1, r2}
  Cron = Cron
  Faults = {"pki", "late", "chmod", "db", "crash"}
  NoCN = NoCN
  NoLabel = NoLabel
  NoRow = NoRow
SYMMETRY OneNameSymmetry
INVARIANTS IInv RevokedIsBlocked FlagHonest NameKeepsACredential
PROPERTIES DownloadServesUsable BlockedForever ImplementsLedger
CHECK_DEADLOCK FALSE
