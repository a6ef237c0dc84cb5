SPECIFICATION FairSpec
CONSTANTS
  A = A
  B = B
  Device = {A, B}
  Generated = {A}
  Claimers = {B}
  MaxDrops = 1
  MaxRevokes = 1
  MaxHandOvers = 1
  MaxLeaves = 1
CONSTRAINT UntilAstray
CHECK_DEADLOCK FALSE
INVARIANTS
  TypeOK
  OneLine
PROPERTIES
  AllAgree
