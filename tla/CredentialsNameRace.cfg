SPECIFICATION Spec
CONSTANTS
  alice = alice
  bob = bob
  a1 = a1
  a2 = a2
  a3 = a3
  b1 = b1
  r1 = r1
  r2 = r2
  Label <- OneName
  CN <- TwoCN
  Candidates <- TwoCNCandidates
  Req = {r1, r2}
  Cron = Cron
  Faults = {}
  NoCN = NoCN
  NoLabel = NoLabel
  NoRow = NoRow
INVARIANTS OneCurrentPerName
CHECK_DEADLOCK FALSE
