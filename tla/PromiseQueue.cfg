SPECIFICATION LiveSpec
CONSTANTS
  Task = {t1, t2, t3, t4}
  Resolved = Resolved
INVARIANTS ChainLinked OneAtATime
PROPERTIES IsSerialQueue ChainStaysAlive
CHECK_DEADLOCK FALSE
