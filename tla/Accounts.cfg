SPECIFICATION Spec
CONSTANTS
  ana = ana
  Ana = Ana
  key = key
  i1 = i1
  i2 = i2
  i3 = i3
  s1 = s1
  s2 = s2
  Key = {key}
  MaxAttempts = 2
  Id = {i1, i2, i3}
  User = {ana, Ana}
  Password = {old, new}
  KeyOf <- OneKey
  Req = {s1, s2}
  Commands = {"create", "reset", "delete"}
  NoAccount = NoAccount
  NoId = NoId
SYMMETRY AccountSymmetry
INVARIANTS AccountsInv UsernamesUnique DeletedForGood LockoutBound
PROPERTIES LastGoesOnStaleCountOnly
