SPECIFICATION KeysFairSpec
CONSTANTS
  Ids = {1, 2, 3, 4, 5, 6, 7, 8, 9, 10}
  Prekeys = {TRUE, FALSE}
  MaxOdd = 1
CHECK_DEADLOCK FALSE
INVARIANTS
  KeysTypeOK
  AgreeUndisturbed
PROPERTIES
  Heals
