SPECIFICATION LiveSpec
CONSTANTS
  CrlDays = 22
  MaxMisses = 2
INVARIANTS NeverExpires AgeBound
PROPERTIES ExpiryHeals
