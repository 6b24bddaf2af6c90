SPECIFICATION ConsoleSpec
CONSTANTS
  Admin = {ana, rui}
  Token = {t1, t2}
  PageCall = {p1, p2}
  AtLogin = {TRUE, FALSE}
  PageSize = 1
  MaxRows = 2
  NoUser = NoUser
  NoToken = NoToken
  NoId = NoId
INVARIANTS ConsoleInv UserMatchesToken SeesItsRevocation NeverPastTheEnd DoneHonest SeesItsDeletion
CONSTRAINT OverlapBound
SYMMETRY ConsoleSymmetry
CHECK_DEADLOCK FALSE
