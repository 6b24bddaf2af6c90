SPECIFICATION AdminSpec
CONSTANTS
  CN = {cn1, cn2, cn3}
  MaxIndex = 3
  NoRow = NoRow
  Char = {"a", "3"}
  Special = {"ctrl-c"}
  MinLength = 2
  MaxKeys = 2
  Commands = {"create"}
INVARIANTS OnlyCtrlCInterrupts
CHECK_DEADLOCK FALSE
