SPECIFICATION FairSpec
CONSTANTS
  o = o
  a = a
  b = b
  Device = {o, a, b}
  Owner = o
  Founders = {a}
  MaxActs = 2
CHECK_DEADLOCK FALSE
INVARIANTS
  TypeOK
  RemovedStayOut
PROPERTIES
  DroppedOnlyIfRemoved
  OwnersWordArrives
