SPECIFICATION AdminSpec
CONSTANTS
  CN = {cn1, cn2, cn3}
  MaxIndex = 3
  NoRow = NoRow
  Char = {"a", "b"}
  Special = {}
  MinLength = 2
  MaxKeys = 3
  Commands = {"import-clients", "create"}
INVARIANTS AdminInv PasswordIsTyped
PROPERTIES AdoptsEveryClient ReportIsHonest ImportKeepsRows
CHECK_DEADLOCK FALSE
