SPECIFICATION LiveSpec
CONSTANTS
  CN = {c1, c2}
INVARIANTS SchemaInv ServesCurrentSchema
PROPERTIES NamesKept EventuallyServes
